---- MODULE Spec2Model ----
(***************************************************************************)
(* TaskTracker (tasker.py): the one-task-at-a-time tracker.  The model     *)
(* holds the persisted store (storage.json), the in-memory dictionary of   *)
(* the running command, the messages that command printed, the clock, and  *)
(* the tag / filter parsing functions as operators over sequences of       *)
(* characters.                                                             *)
(***************************************************************************)
EXTENDS Integers, Sequences, FiniteSets, TLC

VARIABLES
    store,   \* the JSON document in the storage file (STORE)
    data,    \* the dictionary held in memory by the running command
    pc,      \* where the process is: none running ("idle"), cmd_done waiting at
             \* the next-task prompt ("select"), or a command returning ("exit")
    out,     \* the messages printed by the running command
    now,     \* datetime.now(), in ticks of the clock
    run,     \* what the running command was given: its arguments, what the
             \* user typed, the uuid drawn, whether write_text succeeds
    prev,    \* the storage file as it was when the running command started
    call,    \* the pure function under check and its argument
    ret      \* its result, or Pending

vars == <<store, data, pc, out, now, run, prev, call, ret>>

(***************************************************************************)
(* Python values.  A str is a sequence of one-character strings; None, a   *)
(* str and a dict are told apart by their kind, and a dict has exactly the *)
(* keys of its record (besides kind).                                      *)
(***************************************************************************)
None == [kind |-> "none"]

Str(s) == [kind |-> "str", s |-> s]

isdict(v) == v.kind = "dict"

isstr(v) == v.kind = "str"

haskey(v, k) == k \in DOMAIN v

PyInt(n) == [kind |-> "int", n |-> n]

\* Python truthiness of None, a str, an int or a dict ({} is false)
truthy(v) == CASE v.kind = "none" -> FALSE
               [] v.kind = "str" -> v.s # <<>>
               [] v.kind = "int" -> v.n # 0
               [] OTHER -> DOMAIN v # {"kind"}

(***************************************************************************)
(* Characters and str methods.                                             *)
(***************************************************************************)
UpperLetters == {"A", "N", "U", "W", "Y"}

LowerLetters == {"a", "b", "n", "u", "w", "y"}

Digits == {"0", "1", "2", "3", "4", "5"}

\* the class [a-zA-Z0-9_-] of category_pattern, tag_pattern and pattern
TagChars == UpperLetters \cup LowerLetters \cup Digits \cup {"_", "-"}

\* what str.strip() removes
SpaceChars == {" ", "\n"}

lower_char(c) == CASE c = "A" -> "a"
                   [] c = "N" -> "n"
                   [] c = "U" -> "u"
                   [] c = "Y" -> "y"
                   [] c = "W" -> "w"
                   [] OTHER -> c

lower(s) == [i \in 1..Len(s) |-> lower_char(s[i])]

RECURSIVE lstrip(_)
lstrip(s) == IF s # <<>> /\ Head(s) \in SpaceChars THEN lstrip(Tail(s)) ELSE s

RECURSIVE rstrip(_)
rstrip(s) == IF s # <<>> /\ s[Len(s)] \in SpaceChars
             THEN rstrip(SubSeq(s, 1, Len(s) - 1))
             ELSE s

strip(s) == rstrip(lstrip(s))

startswith(s, c) == s # <<>> /\ Head(s) = c

RECURSIVE split(_, _)
split(s, sep) ==
    IF \E i \in 1..Len(s) : s[i] = sep
    THEN LET i == CHOOSE k \in 1..Len(s) :
                      s[k] = sep /\ \A j \in 1..(k - 1) : s[j] # sep
         IN  <<SubSeq(s, 1, i - 1)>> \o split(SubSeq(s, i + 1, Len(s)), sep)
    ELSE <<s>>

\* list(dict.fromkeys(xs)): the first occurrence of each element, in order
dict_fromkeys(xs) ==
    LET keep[i \in 0..Len(xs)] ==
            IF i = 0 THEN <<>>
            ELSE IF \E j \in 1..Len(keep[i - 1]) : keep[i - 1][j] = xs[i]
                 THEN keep[i - 1]
                 ELSE Append(keep[i - 1], xs[i])
    IN  keep[Len(xs)]

\* the length of the longest prefix of s made of [a-zA-Z0-9_-]
RECURSIVE tag_run(_)
tag_run(s) == IF s # <<>> /\ Head(s) \in TagChars THEN 1 + tag_run(Tail(s)) ELSE 0

\* re.findall(sigil + "([a-zA-Z0-9_-]+)", s): leftmost, greedy, non-overlapping
RECURSIVE findall(_, _)
findall(sigil, s) ==
    IF s = <<>> THEN <<>>
    ELSE IF Head(s) = sigil /\ tag_run(Tail(s)) >= 1
         THEN LET n == tag_run(Tail(s))
              IN  <<SubSeq(s, 2, n + 1)>> \o findall(sigil, SubSeq(s, n + 2, Len(s)))
         ELSE findall(sigil, Tail(s))

(***************************************************************************)
(* Tag parsing functions.                                                  *)
(***************************************************************************)
\* a faulty variant of parse_tags: duplicates are removed before lowercasing
parse_tags_dedup_before_lower(task_text) ==
    IF ~truthy(task_text)
    THEN [raised |-> "", text |-> task_text, categories |-> <<>>, tags |-> <<>>]
    ELSE IF ~isstr(task_text)
    THEN [raised |-> "TypeError", text |-> task_text, categories |-> <<>>, tags |-> <<>>]
    ELSE LET categories == dict_fromkeys(findall("@", task_text.s))
             tags == dict_fromkeys(findall("#", task_text.s))
         IN  [raised |-> "", text |-> task_text,
              categories |-> [i \in 1..Len(categories) |-> lower(categories[i])],
              tags |-> [i \in 1..Len(tags) |-> lower(tags[i])]]

\* a faulty variant of parse_tags: the tokens are kept as typed
parse_tags_as_typed(task_text) ==
    IF ~truthy(task_text)
    THEN [raised |-> "", text |-> task_text, categories |-> <<>>, tags |-> <<>>]
    ELSE IF ~isstr(task_text)
    THEN [raised |-> "TypeError", text |-> task_text, categories |-> <<>>, tags |-> <<>>]
    ELSE [raised |-> "", text |-> task_text,
          categories |-> dict_fromkeys(findall("@", task_text.s)),
          tags |-> dict_fromkeys(findall("#", task_text.s))]

\* task_text is None or a str; the result is (original_text, categories, tags).
\* Anything else that is truthy makes re.findall raise TypeError (raised).
parse_tags(task_text) ==
    IF ~truthy(task_text)
    THEN [raised |-> "", text |-> task_text, categories |-> <<>>, tags |-> <<>>]
    ELSE IF ~isstr(task_text)
    THEN [raised |-> "TypeError", text |-> task_text, categories |-> <<>>, tags |-> <<>>]
    ELSE LET categories == findall("@", task_text.s)
             tags == findall("#", task_text.s)
         IN  [raised |-> "", text |-> task_text,
              categories |-> dict_fromkeys([i \in 1..Len(categories) |-> lower(categories[i])]),
              tags |-> dict_fromkeys([i \in 1..Len(tags) |-> lower(tags[i])])]

MaxTagLength == 50

\* re.match(r'^[a-zA-Z0-9_-]+$', tag): "$" also matches before one final "\n"
validate_tag_format(tag) ==
    IF tag = <<>> THEN FALSE
    ELSE IF Len(tag) > MaxTagLength THEN FALSE
    ELSE \/ tag_run(tag) = Len(tag)
         \/ tag[Len(tag)] = "\n" /\ Len(tag) >= 2 /\ tag_run(tag) = Len(tag) - 1

NoError == [msg |-> "", piece |-> <<>>]

MissingSigil(cat) == [msg |-> "Categories must start with @. Invalid: ", piece |-> cat]

InvalidFormat(cat) == [msg |-> "Invalid category format: ", piece |-> cat]

\* a faulty variant of the loop: it goes on after an invalid piece and reports
\* the last invalid piece instead of the first
RECURSIVE parse_filter_loop_last_error(_, _)
parse_filter_loop_last_error(raw_categories, categories) ==
    IF raw_categories = <<>>
    THEN [is_valid |-> TRUE, categories |-> dict_fromkeys(categories), error |-> NoError]
    ELSE LET cat == Head(raw_categories)
             rest == parse_filter_loop_last_error(Tail(raw_categories),
                                                  Append(categories, lower(Tail(cat))))
         IN  IF ~rest.is_valid THEN rest
             ELSE IF ~startswith(cat, "@")
             THEN [is_valid |-> FALSE, categories |-> <<>>, error |-> MissingSigil(cat)]
             ELSE IF ~validate_tag_format(Tail(cat))
             THEN [is_valid |-> FALSE, categories |-> <<>>, error |-> InvalidFormat(cat)]
             ELSE rest

\* a faulty variant of the loop: it keeps the names as typed, not lowercased
RECURSIVE parse_filter_loop_as_typed(_, _)
parse_filter_loop_as_typed(raw_categories, categories) ==
    IF raw_categories = <<>>
    THEN [is_valid |-> TRUE, categories |-> dict_fromkeys(categories), error |-> NoError]
    ELSE LET cat == Head(raw_categories) IN
         IF ~startswith(cat, "@")
         THEN [is_valid |-> FALSE, categories |-> <<>>, error |-> MissingSigil(cat)]
         ELSE LET cat_name == Tail(cat) IN
              IF ~validate_tag_format(cat_name)
              THEN [is_valid |-> FALSE, categories |-> <<>>, error |-> InvalidFormat(cat)]
              ELSE parse_filter_loop_as_typed(Tail(raw_categories),
                                              Append(categories, cat_name))

\* the for loop of parse_filter_categories over raw_categories, with its early returns
RECURSIVE parse_filter_loop(_, _)
parse_filter_loop(raw_categories, categories) ==
    IF raw_categories = <<>>
    THEN [is_valid |-> TRUE, categories |-> dict_fromkeys(categories), error |-> NoError]
    ELSE LET cat == Head(raw_categories) IN
         IF ~startswith(cat, "@")
         THEN [is_valid |-> FALSE, categories |-> <<>>, error |-> MissingSigil(cat)]
         ELSE LET cat_name == Tail(cat) IN
              IF ~validate_tag_format(cat_name)
              THEN [is_valid |-> FALSE, categories |-> <<>>, error |-> InvalidFormat(cat)]
              ELSE parse_filter_loop(Tail(raw_categories),
                                     Append(categories, lower(cat_name)))

\* a faulty variant of parse_filter_categories: the empty pieces are not removed
parse_filter_categories_keeps_empty(filter_str) ==
    IF ~truthy(filter_str)
    THEN [is_valid |-> TRUE, categories |-> <<>>, error |-> NoError]
    ELSE LET pieces == split(filter_str.s, ",")
             raw_categories == [i \in 1..Len(pieces) |-> strip(pieces[i])]
         IN  parse_filter_loop(raw_categories, <<>>)

\* filter_str is None or a str; the result is (is_valid, categories, error_message)
parse_filter_categories(filter_str) ==
    IF ~truthy(filter_str)
    THEN [is_valid |-> TRUE, categories |-> <<>>, error |-> NoError]
    ELSE LET pieces == split(filter_str.s, ",")
             stripped == [i \in 1..Len(pieces) |-> strip(pieces[i])]
             raw_categories == SelectSeq(stripped, LAMBDA cat : cat # <<>>)
         IN  IF raw_categories = <<>>
             THEN [is_valid |-> TRUE, categories |-> <<>>, error |-> NoError]
             ELSE parse_filter_loop(raw_categories, <<>>)

\* a faulty variant of create_task_data: the categories are stored as found in
\* the text, neither lowercased nor deduplicated
create_task_data_as_typed(task_text, ts) ==
    LET parsed == parse_tags(task_text)
    IN  [kind |-> "dict", task |-> parsed.text,
         categories |-> IF truthy(task_text) THEN findall("@", task_text.s) ELSE <<>>,
         tags |-> parsed.tags, ts |-> ts]

\* create_task_data at the time ts: the dict with the parsed categories and tags
create_task_data(task_text, ts) ==
    LET parsed == parse_tags(task_text)
    IN  [kind |-> "dict", task |-> parsed.text, categories |-> parsed.categories,
         tags |-> parsed.tags, ts |-> ts]

(***************************************************************************)
(* Category filtering and migration.  A call either returns a value or     *)
(* raises an exception.                                                    *)
(***************************************************************************)
Returns(v) == [raised |-> "", value |-> v]

Raises(e) == [raised |-> e, value |-> None]

RECURSIVE repr(_)
RECURSIVE str(_)
\* repr of the value of a dict field: a str between quotes, else as str gives it
repr(v) == IF isstr(v) THEN <<"'">> \o v.s \o <<"'">> ELSE str(v)

RECURSIVE str_fields(_, _)
str_fields(v, keys) ==
    IF keys = {} THEN <<>>
    ELSE LET k == CHOOSE x \in keys : TRUE
             value == IF k \in {"ts", "id"} THEN <<"int">>
                      ELSE IF k \in {"categories", "tags"} THEN <<"list">>
                      ELSE repr(v[k])
         IN  <<k, ": ">> \o value \o <<", ">> \o str_fields(v, keys \ {k})

\* str(task): a str is itself; None, a number, a list, and the field names
\* and punctuation of a dict are one chunk each
str(v) == CASE v.kind = "str" -> v.s
            [] v.kind = "none" -> <<"None">>
            [] v.kind = "int" -> <<"int">>
            [] OTHER -> <<"{">> \o str_fields(v, DOMAIN v \ {"kind"}) \o <<"}">>

\* _, task_categories, _ = parse_tags(x)
parsed_categories(x) ==
    IF parse_tags(x).raised # "" THEN Raises(parse_tags(x).raised)
    ELSE Returns(parse_tags(x).categories)

\* a faulty variant: a dict without a categories field is not parsed
list_task_categories_stored_only(task) ==
    IF isdict(task)
    THEN IF haskey(task, "categories") THEN Returns(task.categories)
         ELSE IF haskey(task, "task") /\ isdict(task.task)
                 /\ haskey(task.task, "categories")
         THEN Returns(task.task.categories)
         ELSE Returns(<<>>)
    ELSE parsed_categories(Str(str(task)))

\* task_categories as the loop of filter_tasks_by_categories finds them
list_task_categories(task) ==
    IF isdict(task)
    THEN IF haskey(task, "categories") THEN Returns(task.categories)
         ELSE IF haskey(task, "task")
         THEN IF isdict(task.task)
              THEN IF haskey(task.task, "categories") THEN Returns(task.task.categories)
                   ELSE IF ~haskey(task.task, "task") THEN Raises("KeyError")
                   ELSE parsed_categories(task.task.task)
              ELSE parsed_categories(task.task)
         ELSE parsed_categories(Str(str(task)))
    ELSE parsed_categories(Str(str(task)))

\* any(cat in task_categories for cat in filter_categories)
any_in(filter_categories, task_categories) ==
    \E i \in 1..Len(filter_categories) : \E j \in 1..Len(task_categories) :
        filter_categories[i] = task_categories[j]

\* a faulty variant of the loop: a task equal to one already kept is skipped
RECURSIVE filter_tasks_loop_unique(_, _, _)
filter_tasks_loop_unique(tasks, filter_categories, filtered_tasks) ==
    IF tasks = <<>> THEN Returns(filtered_tasks)
    ELSE LET task == Head(tasks)
             task_categories == list_task_categories(task)
         IN  IF task_categories.raised # "" THEN task_categories
             ELSE filter_tasks_loop_unique(
                      Tail(tasks), filter_categories,
                      IF /\ any_in(filter_categories, task_categories.value)
                         /\ \A i \in 1..Len(filtered_tasks) : filtered_tasks[i] # task
                      THEN Append(filtered_tasks, task) ELSE filtered_tasks)

\* the for loop of filter_tasks_by_categories
RECURSIVE filter_tasks_loop(_, _, _)
filter_tasks_loop(tasks, filter_categories, filtered_tasks) ==
    IF tasks = <<>> THEN Returns(filtered_tasks)
    ELSE LET task == Head(tasks)
             task_categories == list_task_categories(task)
         IN  IF task_categories.raised # "" THEN task_categories
             ELSE filter_tasks_loop(
                      Tail(tasks), filter_categories,
                      IF any_in(filter_categories, task_categories.value)
                      THEN Append(filtered_tasks, task) ELSE filtered_tasks)

filter_tasks_by_categories(tasks, filter_categories) ==
    IF filter_categories = <<>> THEN Returns(tasks)
    ELSE filter_tasks_loop(tasks, filter_categories, <<>>)

\* task_categories as filter_single_task_by_categories finds them
single_task_categories(task) ==
    IF isdict(task)
    THEN IF haskey(task, "categories") THEN Returns(task.categories)
         ELSE IF haskey(task, "task")
         THEN IF isdict(task.task)
              THEN IF haskey(task.task, "categories") THEN Returns(task.task.categories)
                   ELSE IF ~haskey(task.task, "task") THEN Raises("KeyError")
                   ELSE parsed_categories(task.task.task)
              ELSE parsed_categories(task.task)
         ELSE parsed_categories(Str(str(task)))
    ELSE parsed_categories(Str(str(task)))

\* a faulty variant: every filter category must be among the task's
filter_single_task_by_categories_all(task, filter_categories) ==
    IF filter_categories = <<>> THEN Returns(TRUE)
    ELSE IF single_task_categories(task).raised # "" THEN single_task_categories(task)
    ELSE Returns(\A i \in 1..Len(filter_categories) :
                     \E j \in 1..Len(single_task_categories(task).value) :
                         filter_categories[i] = single_task_categories(task).value[j])

filter_single_task_by_categories(task, filter_categories) ==
    IF filter_categories = <<>> THEN Returns(TRUE)
    ELSE IF single_task_categories(task).raised # "" THEN single_task_categories(task)
    ELSE Returns(any_in(filter_categories, single_task_categories(task).value))

\* dict.get(key, default)
get(d, key, default) == IF haskey(d, key) THEN d[key] ELSE default

\* updated_task = task_data.copy() with categories and tags set
with_tags(task_data, categories, tags) ==
    [k \in DOMAIN task_data \cup {"categories", "tags"} |->
        IF k = "categories" THEN categories
        ELSE IF k = "tags" THEN tags
        ELSE task_data[k]]

\* a faulty variant: a record that has categories and tags is parsed again
migrate_task_to_tagged_format_reparses(task_data) ==
    IF parse_tags(get(task_data, "task", Str(<<>>))).raised # ""
    THEN [raised |-> parse_tags(get(task_data, "task", Str(<<>>))).raised,
          value |-> None, task_data |-> task_data]
    ELSE [raised |-> "",
          value |-> with_tags(task_data,
                              parse_tags(get(task_data, "task", Str(<<>>))).categories,
                              parse_tags(get(task_data, "task", Str(<<>>))).tags),
          task_data |-> task_data]

\* migrate_task_to_tagged_format(task_data): what it returns (value), and
\* task_data as the call leaves it
migrate_task_to_tagged_format(task_data) ==
    IF haskey(task_data, "categories") /\ haskey(task_data, "tags")
    THEN [raised |-> "", value |-> task_data, task_data |-> task_data]
    ELSE IF parse_tags(get(task_data, "task", Str(<<>>))).raised # ""
    THEN [raised |-> parse_tags(get(task_data, "task", Str(<<>>))).raised,
          value |-> None, task_data |-> task_data]
    ELSE [raised |-> "",
          value |-> with_tags(task_data,
                              parse_tags(get(task_data, "task", Str(<<>>))).categories,
                              parse_tags(get(task_data, "task", Str(<<>>))).tags),
          task_data |-> task_data]

(***************************************************************************)
(* Input validation and prompts.                                           *)
(***************************************************************************)
MAX_TASK_LENGTH == 500

\* task is a str (args.task, or what the user typed); the result is (is_valid, error_message)
validate_task_name(task) ==
    IF task = <<>> THEN [is_valid |-> FALSE, error |-> "Task name cannot be empty."]
    ELSE LET task_stripped == strip(task) IN
         IF task_stripped = <<>>
         THEN [is_valid |-> FALSE, error |-> "Task name cannot be only whitespace."]
         ELSE IF Len(task_stripped) > MAX_TASK_LENGTH
         THEN [is_valid |-> FALSE, error |-> "Task name too long"]
         ELSE IF \E i \in 1..Len(task_stripped) : task_stripped[i] = "\n"
         THEN [is_valid |-> FALSE, error |-> "Task name cannot contain line breaks."]
         ELSE [is_valid |-> TRUE, error |-> ""]

\* safe_input without a validator: typed is None when the input is cancelled
\* (KeyboardInterrupt, EOFError), else the str the user typed
safe_input(typed) == IF typed = None THEN None ELSE Str(strip(typed.s))

\* safe_input(prompt, validate_task_name)
safe_input_task(typed) ==
    IF typed = None THEN None
    ELSE IF ~validate_task_name(strip(typed.s)).is_valid THEN None
    ELSE Str(strip(typed.s))

\* str.isdigit() on the characters of the model
isdigit(s) == s # <<>> /\ \A i \in 1..Len(s) : s[i] \in Digits

digit_value(c) == CASE c = "0" -> 0 [] c = "1" -> 1 [] c = "2" -> 2
                     [] c = "3" -> 3 [] c = "4" -> 4 [] c = "5" -> 5

RECURSIVE int(_)
int(s) == IF s = <<>> THEN 0 ELSE 10 * int(SubSeq(s, 1, Len(s) - 1)) + digit_value(s[Len(s)])

\* safe_int_input(prompt, min_val, max_val): None when cancelled, empty, not a
\* number (ValueError) or out of range
safe_int_input(typed, min_val, max_val) ==
    IF typed = None THEN None
    ELSE LET user_input == strip(typed.s) IN
         IF user_input = <<>> THEN None
         ELSE IF ~isdigit(user_input) THEN None
         ELSE IF int(user_input) < min_val THEN None
         ELSE IF int(user_input) > max_val THEN None
         ELSE PyInt(int(user_input))

(***************************************************************************)
(* Storage helpers.  A store is a Python dict: a function whose domain is  *)
(* its set of keys, "backlog" and the date strings.                        *)
(***************************************************************************)
EmptyDict == [k \in {} |-> None]

setdefault(d, k, v) ==
    IF k \in DOMAIN d THEN d
    ELSE [x \in DOMAIN d \cup {k} |-> IF x = k THEN v ELSE d[x]]

\* the file does not exist at first, and load() then returns {}
load == store

\* save(data): the file is rewritten unless write_text raises OSError
save(d, write_ok) == store' = IF write_ok THEN d ELSE store

DateStrings == <<"2025-05-30", "2025-05-31", "2025-06-01", "2025-06-02">>

TicksPerDay == 1

\* str(date.today()): the date of the clock's time
today_key == DateStrings[(now \div TicksPerDay) + 1]

\* a faulty variant of ensure_today: today's bucket is made anew at each call
ensure_today_resets(d) ==
    [x \in DOMAIN d \cup {"backlog", today_key} |->
        IF x = today_key THEN [todo |-> None, done |-> <<>>]
        ELSE IF x \in DOMAIN d THEN d[x] ELSE <<>>]

\* a faulty variant of ensure_today: a new bucket takes over the active task
\* an earlier day has left
ensure_today_carries_over(d) ==
    LET left == {k \in DOMAIN d \ {"backlog", today_key} : truthy(d[k].todo)}
        new == IF left = {} THEN [todo |-> None, done |-> <<>>]
               ELSE [todo |-> d[CHOOSE k \in left : TRUE].todo, done |-> <<>>]
    IN  setdefault(setdefault(d, "backlog", <<>>), today_key, new)

ensure_today(d) ==
    setdefault(setdefault(d, "backlog", <<>>), today_key, [todo |-> None, done |-> <<>>])

get_backlog(d) == setdefault(d, "backlog", <<>>)["backlog"]

\* a faulty variant of list.pop(idx): pop() without the index drops the last item
pop_last(list, idx) == SubSeq(list, 1, Len(list) - 1)

\* list.pop(idx) leaves the list without its element idx + 1 (1-based here)
pop(list, idx) == SubSeq(list, 1, idx) \o SubSeq(list, idx + 2, Len(list))

\* print_backlog_list calls item.get('ts', '') on every item: a str item raises
\* AttributeError and the command ends there
print_backlog_list_raises(backlog) == \E i \in 1..Len(backlog) : ~isdict(backlog[i])

\* a faulty variant of complete_current_task: the done list is overwritten
complete_current_task_overwrites(today, id, ts) ==
    LET task_data == IF isdict(today.todo) THEN today.todo
                     ELSE create_task_data(today.todo, ts)
        done_item == [kind |-> "dict", id |-> id, task |-> task_data, ts |-> ts]
    IN  [todo |-> None, done |-> <<done_item>>]

\* a faulty variant of complete_current_task: the active task is not cleared
complete_current_task_keeps_todo(today, id, ts) ==
    LET task_data == IF isdict(today.todo) THEN today.todo
                     ELSE create_task_data(today.todo, ts)
        done_item == [kind |-> "dict", id |-> id, task |-> task_data, ts |-> ts]
    IN  [todo |-> today.todo, done |-> Append(today.done, done_item)]

\* complete_current_task(today), with the uuid and the time it draws
complete_current_task(today, id, ts) ==
    LET task_data == IF isdict(today.todo) THEN today.todo
                     ELSE create_task_data(today.todo, ts)
        done_item == [kind |-> "dict", id |-> id, task |-> task_data, ts |-> ts]
    IN  [todo |-> None, done |-> Append(today.done, done_item)]

(***************************************************************************)
(* Command functions.  Each takes what the environment supplies: the       *)
(* arguments, what the user types at a prompt, the uuid drawn, and whether *)
(* write_text succeeds.                                                    *)
(***************************************************************************)
Idle == [at |-> "idle", today |-> ""]

Exiting == [at |-> "exit", today |-> ""]

\* the records a store holds: active tasks, done entries and backlog items
RECURSIVE NumRecordsIn(_, _)
NumRecordsIn(d, dates) ==
    IF dates = {} THEN 0
    ELSE LET k == CHOOSE x \in dates : TRUE
         IN  (IF truthy(d[k].todo) THEN 1 ELSE 0) + Len(d[k].done)
             + NumRecordsIn(d, dates \ {k})

NumRecords(d) ==
    NumRecordsIn(d, DOMAIN d \ {"backlog"})
    + (IF "backlog" \in DOMAIN d THEN Len(d["backlog"]) ELSE 0)

\* a faulty variant of the test of the answer: everything but 'n' is a yes
accepts_backlog_unless_no(response) == ~(truthy(response) /\ lower(response.s) = <<"n">>)

\* the test of the [y/N] answer: response and response.lower() == 'y'
accepts_backlog(response) == truthy(response) /\ lower(response.s) = <<"y">>

cmd_add(task, typed, write_ok) ==
    /\ pc = Idle
    /\ IF ~validate_task_name(task).is_valid
       THEN /\ out' = <<validate_task_name(task).error>>
            /\ UNCHANGED <<store, data>>
       ELSE LET d0 == ensure_today(load)
                clean_task == strip(task)
                task_data == create_task_data(Str(clean_task), now)
            IN  IF truthy(d0[today_key].todo)
                THEN LET response == safe_input(typed) IN
                     IF accepts_backlog(response)
                     THEN LET d1 == [d0 EXCEPT !["backlog"] = Append(@, task_data)]
                          IN  /\ data' = d1
                              /\ save(d1, write_ok)
                              /\ out' = <<"Active task already exists",
                                          IF write_ok THEN "Added to backlog"
                                          ELSE "Cannot save to storage file">>
                     ELSE /\ data' = d0
                          /\ out' = <<"Active task already exists">>
                          /\ UNCHANGED store
                ELSE LET d1 == [d0 EXCEPT ![today_key].todo = task_data]
                     IN  /\ data' = d1
                         /\ save(d1, write_ok)
                         /\ out' = IF write_ok THEN <<"Added", "=== TODAY">>
                                   ELSE <<"Cannot save to storage file">>
    /\ pc' = Exiting
    /\ UNCHANGED <<now, call, ret>>

\* a faulty variant of cmd_done: the prompt comes whether or not the file
\* could be written
cmd_done_prompts_anyway(id, write_ok) ==
    /\ pc = Idle
    /\ LET d0 == ensure_today(load) IN
       IF ~truthy(d0[today_key].todo)
       THEN /\ data' = d0
            /\ out' = <<"No active task to complete.">>
            /\ pc' = Exiting
            /\ UNCHANGED store
       ELSE LET d1 == [d0 EXCEPT ![today_key] = complete_current_task(@, id, now)]
            IN  /\ data' = d1
                /\ save(d1, write_ok)
                /\ IF get_backlog(d1) = <<>>
                   THEN /\ out' = <<"Completed", "=== TODAY", "Backlog is empty.",
                                    "Select next task:">>
                        /\ pc' = [at |-> "select", today |-> today_key]
                   ELSE IF print_backlog_list_raises(get_backlog(d1))
                   THEN /\ out' = <<"Completed", "=== TODAY", "AttributeError">>
                        /\ pc' = Exiting
                   ELSE /\ out' = <<"Completed", "=== TODAY", "Backlog", "Select next task:">>
                        /\ pc' = [at |-> "select", today |-> today_key]
    /\ UNCHANGED <<now, call, ret>>

\* cmd_done up to the prompt of handle_next_task_selection
cmd_done(id, write_ok) ==
    /\ pc = Idle
    /\ LET d0 == ensure_today(load) IN
       IF ~truthy(d0[today_key].todo)
       THEN /\ data' = d0
            /\ out' = <<"No active task to complete.">>
            /\ pc' = Exiting
            /\ UNCHANGED store
       ELSE LET d1 == [d0 EXCEPT ![today_key] = complete_current_task(@, id, now)]
            IN  /\ data' = d1
                /\ save(d1, write_ok)
                /\ IF ~write_ok
                   THEN /\ out' = <<"Completed", "Cannot save to storage file">>
                        /\ pc' = Exiting
                   ELSE IF get_backlog(d1) = <<>>
                   THEN /\ out' = <<"Completed", "=== TODAY", "Backlog is empty.",
                                    "Select next task:">>
                        /\ pc' = [at |-> "select", today |-> today_key]
                   ELSE IF print_backlog_list_raises(get_backlog(d1))
                   THEN /\ out' = <<"Completed", "=== TODAY", "AttributeError">>
                        /\ pc' = Exiting
                   ELSE /\ out' = <<"Completed", "=== TODAY", "Backlog", "Select next task:">>
                        /\ pc' = [at |-> "select", today |-> today_key]
    /\ UNCHANGED <<now, call, ret>>

\* a faulty variant of handle_next_task_selection: the index is tested against
\* the length only, so that 0 takes the last item, as backlog.pop(-1) does
handle_next_task_selection_no_lower_bound(typed, typed_task, write_ok) ==
    /\ pc.at = "select"
    /\ pc' = Exiting
    /\ LET today == pc.today
           backlog == get_backlog(data)
           choice == safe_input(typed)
       IN  IF choice = None
           THEN /\ out' = <<"Input cancelled.">>
                /\ UNCHANGED <<store, data>>
           ELSE IF isdigit(choice.s)
           THEN LET index == IF int(choice.s) - 1 < 0 THEN Len(backlog) - 1
                             ELSE int(choice.s) - 1
                IN
                IF 0 <= index /\ index < Len(backlog)
                THEN LET task_item == backlog[index + 1]
                         todo == IF isdict(task_item) /\ haskey(task_item, "task")
                                 THEN IF isdict(task_item.task) THEN task_item.task
                                      ELSE create_task_data(task_item.task, now)
                                 ELSE create_task_data(task_item, now)
                         d1 == [data EXCEPT !["backlog"] = pop(backlog, index),
                                            ![today].todo = todo]
                     IN  /\ data' = d1
                         /\ save(d1, write_ok)
                         /\ out' = IF write_ok THEN <<"Pulled from backlog", "=== TODAY">>
                                   ELSE <<"Cannot save to storage file">>
                ELSE /\ out' = <<"Invalid backlog index.">>
                     /\ UNCHANGED <<store, data>>
           ELSE IF lower(choice.s) = <<"n">>
           THEN LET new_task == safe_input_task(typed_task) IN
                IF truthy(new_task)
                THEN LET d1 == [data EXCEPT ![today].todo = create_task_data(new_task, now)]
                     IN  /\ data' = d1
                         /\ save(d1, write_ok)
                         /\ out' = IF write_ok THEN <<"Added", "=== TODAY">>
                                   ELSE <<"Cannot save to storage file">>
                ELSE /\ out' = IF typed_task = None THEN <<"Input cancelled.">>
                               ELSE <<validate_task_name(strip(typed_task.s)).error>>
                     /\ UNCHANGED <<store, data>>
           ELSE /\ out' = <<>>
                /\ UNCHANGED <<store, data>>
    /\ UNCHANGED <<now, call, ret>>

\* handle_next_task_selection from its prompt on: typed answers "> " and
\* typed_task answers "Enter new task: "
handle_next_task_selection(typed, typed_task, write_ok) ==
    /\ pc.at = "select"
    /\ pc' = Exiting
    /\ LET today == pc.today
           backlog == get_backlog(data)
           choice == safe_input(typed)
       IN  IF choice = None
           THEN /\ out' = <<"Input cancelled.">>
                /\ UNCHANGED <<store, data>>
           ELSE IF isdigit(choice.s)
           THEN LET index == int(choice.s) - 1 IN
                IF 0 <= index /\ index < Len(backlog)
                THEN LET task_item == backlog[index + 1]
                         todo == IF isdict(task_item) /\ haskey(task_item, "task")
                                 THEN IF isdict(task_item.task) THEN task_item.task
                                      ELSE create_task_data(task_item.task, now)
                                 ELSE create_task_data(task_item, now)
                         d1 == [data EXCEPT !["backlog"] = pop(backlog, index),
                                            ![today].todo = todo]
                     IN  /\ data' = d1
                         /\ save(d1, write_ok)
                         /\ out' = IF write_ok THEN <<"Pulled from backlog", "=== TODAY">>
                                   ELSE <<"Cannot save to storage file">>
                ELSE /\ out' = <<"Invalid backlog index.">>
                     /\ UNCHANGED <<store, data>>
           ELSE IF lower(choice.s) = <<"n">>
           THEN LET new_task == safe_input_task(typed_task) IN
                IF truthy(new_task)
                THEN LET d1 == [data EXCEPT ![today].todo = create_task_data(new_task, now)]
                     IN  /\ data' = d1
                         /\ save(d1, write_ok)
                         /\ out' = IF write_ok THEN <<"Added", "=== TODAY">>
                                   ELSE <<"Cannot save to storage file">>
                ELSE /\ out' = IF typed_task = None THEN <<"Input cancelled.">>
                               ELSE <<validate_task_name(strip(typed_task.s)).error>>
                     /\ UNCHANGED <<store, data>>
           ELSE /\ out' = <<>>
                /\ UNCHANGED <<store, data>>
    /\ UNCHANGED <<now, call, ret>>

\* a faulty variant of cmd_status: the dict it has loaded is saved
cmd_status_saves(filter) ==
    /\ pc = Idle
    /\ data' = ensure_today(load)
    /\ save(ensure_today(load), TRUE)
    /\ LET parsed == IF truthy(filter) THEN parse_filter_categories(filter)
                     ELSE [is_valid |-> TRUE, categories |-> <<>>, error |-> NoError]
       IN  out' = IF ~parsed.is_valid THEN <<parsed.error.msg>> ELSE <<"=== TODAY">>
    /\ pc' = Exiting
    /\ UNCHANGED <<now, call, ret>>

\* cmd_status never saves; filter is args.filter, None or a str
cmd_status(filter) ==
    /\ pc = Idle
    /\ data' = ensure_today(load)
    /\ LET parsed == IF truthy(filter) THEN parse_filter_categories(filter)
                     ELSE [is_valid |-> TRUE, categories |-> <<>>, error |-> NoError]
       IN  out' = IF ~parsed.is_valid THEN <<parsed.error.msg>> ELSE <<"=== TODAY">>
    /\ pc' = Exiting
    /\ UNCHANGED <<store, now, call, ret>>

cmd_newday(write_ok) ==
    /\ pc = Idle
    /\ data' = ensure_today(load)
    /\ save(ensure_today(load), write_ok)
    /\ out' = IF write_ok THEN <<"New day initialized">> ELSE <<"Cannot save to storage file">>
    /\ pc' = Exiting
    /\ UNCHANGED <<now, call, ret>>

\* cmd_backlog with args.subcmd == "add"
cmd_backlog_add(task, write_ok) ==
    /\ pc = Idle
    /\ LET d0 == ensure_today(load) IN
       IF ~validate_task_name(task).is_valid
       THEN /\ data' = d0
            /\ out' = <<validate_task_name(task).error>>
            /\ UNCHANGED store
       ELSE LET clean_task == strip(task)
                task_data == create_task_data(Str(clean_task), now)
                d1 == [d0 EXCEPT !["backlog"] = Append(@, task_data)]
            IN  /\ data' = d1
                /\ save(d1, write_ok)
                /\ out' = IF write_ok THEN <<"Backlog task added">>
                          ELSE <<"Cannot save to storage file">>
    /\ pc' = Exiting
    /\ UNCHANGED <<now, call, ret>>

\* cmd_backlog with args.subcmd == "list"
cmd_backlog_list(filter) ==
    /\ pc = Idle
    /\ data' = ensure_today(load)
    /\ LET parsed == IF truthy(filter) THEN parse_filter_categories(filter)
                     ELSE [is_valid |-> TRUE, categories |-> <<>>, error |-> NoError]
       IN  out' = IF ~parsed.is_valid THEN <<parsed.error.msg>> ELSE <<"Backlog">>
    /\ pc' = Exiting
    /\ UNCHANGED <<store, now, call, ret>>

\* a faulty variant of the choice of idx: the active task is not looked at
pull_target_ignores_active(today, backlog, index, plain, typed) ==
    IF backlog = <<>>
    THEN [report |-> "No backlog items to pull.", idx |-> 0]
    ELSE IF truthy(index)
    THEN IF index.n - 1 < 0 \/ index.n - 1 >= Len(backlog)
         THEN [report |-> "Invalid index", idx |-> 0]
         ELSE [report |-> "", idx |-> index.n - 1]
    ELSE IF ~plain
    THEN IF print_backlog_list_raises(backlog)
         THEN [report |-> "AttributeError", idx |-> 0]
         ELSE LET selected == safe_int_input(typed, 1, Len(backlog)) IN
              IF selected = None THEN [report |-> "Backlog", idx |-> 0]
              ELSE [report |-> "", idx |-> selected.n - 1]
    ELSE [report |-> "", idx |-> 0]

\* a faulty variant of the choice of idx: in plain mode the last item is taken
pull_target_takes_last(today, backlog, index, plain, typed) ==
    IF truthy(today.todo)
    THEN [report |-> "Active task already exists", idx |-> 0]
    ELSE IF backlog = <<>>
    THEN [report |-> "No backlog items to pull.", idx |-> 0]
    ELSE IF truthy(index)
    THEN IF index.n - 1 < 0 \/ index.n - 1 >= Len(backlog)
         THEN [report |-> "Invalid index", idx |-> 0]
         ELSE [report |-> "", idx |-> index.n - 1]
    ELSE IF ~plain
    THEN IF print_backlog_list_raises(backlog)
         THEN [report |-> "AttributeError", idx |-> 0]
         ELSE LET selected == safe_int_input(typed, 1, Len(backlog)) IN
              IF selected = None THEN [report |-> "Backlog", idx |-> 0]
              ELSE [report |-> "", idx |-> selected.n - 1]
    ELSE [report |-> "", idx |-> Len(backlog) - 1]

\* cmd_backlog "pull" up to the choice of idx: what it reports when it gives up
\* (report), else the 0-based idx to pop.  index is args.index (None or an
\* int), plain is USE_PLAIN, typed answers "Select task to pull [1-n]: "
pull_target(today, backlog, index, plain, typed) ==
    IF truthy(today.todo)
    THEN [report |-> "Active task already exists", idx |-> 0]
    ELSE IF backlog = <<>>
    THEN [report |-> "No backlog items to pull.", idx |-> 0]
    ELSE IF truthy(index)
    THEN IF index.n - 1 < 0 \/ index.n - 1 >= Len(backlog)
         THEN [report |-> "Invalid index", idx |-> 0]
         ELSE [report |-> "", idx |-> index.n - 1]
    ELSE IF ~plain
    THEN IF print_backlog_list_raises(backlog)
         THEN [report |-> "AttributeError", idx |-> 0]
         ELSE LET selected == safe_int_input(typed, 1, Len(backlog)) IN
              IF selected = None THEN [report |-> "Backlog", idx |-> 0]
              ELSE [report |-> "", idx |-> selected.n - 1]
    ELSE [report |-> "", idx |-> 0]

\* the active task made of a popped backlog item, by its format
todo_from_item(task_item, ts) ==
    IF isdict(task_item) /\ haskey(task_item, "task")
    THEN IF isdict(task_item.task) THEN task_item.task
         ELSE create_task_data(task_item.task, ts)
    ELSE create_task_data(task_item, ts)

\* cmd_backlog with args.subcmd == "pull"
cmd_backlog_pull(index, plain, typed, write_ok) ==
    /\ pc = Idle
    /\ LET d0 == ensure_today(load)
           backlog == get_backlog(d0)
           target == pull_target(d0[today_key], backlog, index, plain, typed)
       IN  IF target.report # ""
           THEN /\ data' = d0
                /\ out' = <<target.report>>
                /\ UNCHANGED store
           ELSE LET task_item == backlog[target.idx + 1]
                    d1 == [d0 EXCEPT !["backlog"] = pop(backlog, target.idx),
                                     ![today_key].todo = todo_from_item(task_item, now)]
                IN  /\ data' = d1
                    /\ save(d1, write_ok)
                    /\ out' = IF write_ok THEN <<"Pulled from backlog", "=== TODAY">>
                              ELSE <<"Cannot save to storage file">>
    /\ pc' = Exiting
    /\ UNCHANGED <<now, call, ret>>

\* a faulty variant of the removal: the index is tested against the length
\* only, so that 0 removes the last item, as backlog.pop(-1) does
cmd_backlog_remove_unchecked(index, write_ok) ==
    /\ pc = Idle
    /\ LET d0 == ensure_today(load)
           backlog == get_backlog(d0)
           at == IF index - 1 < 0 THEN Len(backlog) + (index - 1) ELSE index - 1
       IN  IF backlog = <<>>
           THEN /\ data' = d0
                /\ out' = <<"No backlog items to remove.">>
                /\ UNCHANGED store
           ELSE IF 0 <= at /\ at < Len(backlog)
           THEN LET d1 == [d0 EXCEPT !["backlog"] = pop(backlog, at)]
                IN  /\ data' = d1
                    /\ save(d1, write_ok)
                    /\ out' = IF write_ok THEN <<"Removed from backlog">>
                              ELSE <<"Cannot save to storage file">>
           ELSE /\ data' = d0
                /\ out' = <<"Invalid backlog index">>
                /\ UNCHANGED store
    /\ pc' = Exiting
    /\ UNCHANGED <<now, call, ret>>

\* cmd_backlog with args.subcmd == "remove": index is args.index, an int
cmd_backlog_remove(index, write_ok) ==
    /\ pc = Idle
    /\ LET d0 == ensure_today(load)
           backlog == get_backlog(d0)
       IN  IF backlog = <<>>
           THEN /\ data' = d0
                /\ out' = <<"No backlog items to remove.">>
                /\ UNCHANGED store
           ELSE IF 0 <= index - 1 /\ index - 1 < Len(backlog)
           THEN LET d1 == [d0 EXCEPT !["backlog"] = pop(backlog, index - 1)]
                IN  /\ data' = d1
                    /\ save(d1, write_ok)
                    /\ out' = IF write_ok THEN <<"Removed from backlog">>
                              ELSE <<"Cannot save to storage file">>
           ELSE /\ data' = d0
                /\ out' = <<"Invalid backlog index">>
                /\ UNCHANGED store
    /\ pc' = Exiting
    /\ UNCHANGED <<now, call, ret>>

(***************************************************************************)
(* The environment: time passes, the date changes, and the user runs       *)
(* commands.                                                               *)
(***************************************************************************)
MaxClock == 1

MaxRecords == 2

MaxBacklog == 3

MaxIds == 2

Pending == [is_valid |-> FALSE, categories |-> <<>>, error |-> [msg |-> "pending", piece |-> <<>>]]

NoCall == [fn |-> "", arg |-> None]

\* args.task as typed on the command line: blank, and a task name to be stripped
ArgTexts == {<<" ">>, <<" ", "@", "W", "#", "u", "@", "w", " ">>}

\* what the user may type at the [y/N] prompt of cmd_add (None: cancelled)
TypedAnswers == {None, Str(<<"y">>), Str(<<"Y", " ">>), Str(<<"n">>)}

DigitStrings == <<"0", "1", "2", "3", "4", "5">>

TypedNumbers == {Str(<<DigitStrings[n + 1]>>) : n \in 0..(MaxBacklog + 1)}

\* what the user may type at the "> " prompt of handle_next_task_selection
TypedChoices ==
    {None, Str(<<>>), Str(<<"n">>), Str(<<"N">>), Str(<<"b">>), Str(<<"p">>)} \cup TypedNumbers

TypedTasks == {None} \cup {Str(t) : t \in ArgTexts}

\* what the user may type at "Select task to pull [1-n]: "
TypedSelections == {None, Str(<<"b">>)} \cup TypedNumbers

IndexArgs == {None} \cup {PyInt(i) : i \in (0 - 1)..(MaxBacklog + 1)}

FilterArgs == {None, Str(<<"@", "W">>), Str(<<"w">>)}

\* stored records of the three historical shapes, written before the clock starts
LegacyItem(text) == [kind |-> "dict", task |-> Str(text), ts |-> 0]

NestedItem(text) == [kind |-> "dict", task |-> create_task_data(Str(text), 0), ts |-> 0]

\* a structured record whose categories no longer match its text
DriftedItem == [kind |-> "dict", task |-> Str(<<"a">>), categories |-> <<<<"w">>>>,
                tags |-> <<>>, ts |-> 0]

StoreOf(backlog, todo, done) ==
    [k \in {"backlog", DateStrings[1]} |->
        IF k = "backlog" THEN backlog ELSE [todo |-> todo, done |-> done]]

\* the stores the program may start from: no file, and files written by
\* earlier versions (plain strings, dicts without categories, nested dicts)
InitStores ==
    { EmptyDict,
      StoreOf(<<LegacyItem(<<"@", "W">>), NestedItem(<<"@", "W", "#", "U">>), Str(<<"a">>)>>,
              None, <<>>),
      StoreOf(<<DriftedItem>>, Str(<<"b", "@", "w">>),
              <<[kind |-> "dict", id |-> 1, task |-> Str(<<"a">>), ts |-> 0]>>),
      StoreOf(<<LegacyItem(<<"@", "W">>), NestedItem(<<"a">>), DriftedItem>>,
              create_task_data(Str(<<"b">>), 0),
              <<[kind |-> "dict", id |-> 1, task |-> Str(<<"a">>), ts |-> 0]>>) }

NoRun == [cmd |-> ""]

Init ==
    /\ store \in InitStores
    /\ data = EmptyDict
    /\ pc = Idle
    /\ out = <<>>
    /\ now = 0
    /\ run = NoRun
    /\ prev = EmptyDict
    /\ call = NoCall
    /\ ret = Pending

\* time passes; every TicksPerDay ticks the date changes
Tick ==
    /\ pc # Exiting
    /\ now < MaxClock
    /\ now' = now + 1
    /\ UNCHANGED <<store, data, pc, out, run, prev, call, ret>>

\* the process ends: its memory and its output are gone
Exit ==
    /\ pc = Exiting
    /\ pc' = Idle
    /\ data' = EmptyDict
    /\ out' = <<>>
    /\ run' = NoRun
    /\ prev' = EmptyDict
    /\ UNCHANGED <<store, now, call, ret>>

\* a command starts: what it is given, and the file it finds
Given(r) == run' = r /\ prev' = store

MayCreate == NumRecords(store) < MaxRecords

MayAppend == IF "backlog" \in DOMAIN store THEN Len(store["backlog"]) < MaxBacklog ELSE TRUE

\* what is typed is read only where the command prompts
Next ==
    \/ Tick
    \/ Exit
    \/ /\ MayCreate /\ MayAppend
       /\ \E task \in ArgTexts, typed \in TypedAnswers, write_ok \in BOOLEAN :
          /\ cmd_add(task, typed, write_ok)
          /\ Given([cmd |-> "add", task |-> task, typed |-> typed, write_ok |-> write_ok])
    \/ \E id \in 1..MaxIds, write_ok \in BOOLEAN :
          /\ cmd_done(id, write_ok)
          /\ Given([cmd |-> "done", id |-> id, write_ok |-> write_ok, at |-> now])
    \/ \E typed \in TypedChoices, typed_task \in TypedTasks, write_ok \in BOOLEAN :
          /\ IF typed \in {Str(<<"n">>), Str(<<"N">>)} THEN MayCreate ELSE typed_task = None
          /\ handle_next_task_selection(typed, typed_task, write_ok)
          /\ Given([cmd |-> "select", typed |-> typed, typed_task |-> typed_task,
                    write_ok |-> write_ok, today |-> pc.today])
    \/ \E filter \in FilterArgs :
          /\ cmd_status(filter)
          /\ Given([cmd |-> "status", filter |-> filter])
    \/ \E write_ok \in BOOLEAN :
          /\ cmd_newday(write_ok)
          /\ Given([cmd |-> "newday", write_ok |-> write_ok])
    \/ /\ MayCreate /\ MayAppend
       /\ \E task \in ArgTexts, write_ok \in BOOLEAN :
          /\ cmd_backlog_add(task, write_ok)
          /\ Given([cmd |-> "backlog add", task |-> task, write_ok |-> write_ok])
    \/ \E filter \in FilterArgs :
          /\ cmd_backlog_list(filter)
          /\ Given([cmd |-> "backlog list", filter |-> filter])
    \/ \E index \in IndexArgs, plain \in BOOLEAN, typed \in TypedSelections,
          write_ok \in BOOLEAN :
          /\ IF truthy(index) THEN plain /\ typed = None ELSE (plain => typed = None)
          /\ cmd_backlog_pull(index, plain, typed, write_ok)
          /\ Given([cmd |-> "backlog pull", index |-> index, plain |-> plain,
                    typed |-> typed, write_ok |-> write_ok])
    \/ \E index \in (0 - 1)..(MaxBacklog + 1), write_ok \in BOOLEAN :
          /\ cmd_backlog_remove(index, write_ok)
          /\ Given([cmd |-> "backlog remove", index |-> index, write_ok |-> write_ok])

Spec == Init /\ [][Next]_vars

(***************************************************************************)
(* parse_filter_categories on its own: a filter string is drawn, made of   *)
(* up to MaxPieces pieces joined by commas, and the function is applied.   *)
(***************************************************************************)
MaxPieces == 3

\* the pieces a user may write between the commas of --filter
FilterPieces ==
    { <<>>, <<" ">>, <<"@", "w">>, <<" ", "@", "W", " ">>, <<"@", "a">>,
      <<"w">>, <<"@", "w", "!">>, <<"@">>, <<" ", "b", " ">> }

RECURSIVE join(_)
join(pieces) ==
    IF Len(pieces) = 1 THEN pieces[1]
    ELSE pieces[1] \o <<",">> \o join(Tail(pieces))

PieceLists == UNION {[1..n -> FilterPieces] : n \in 1..MaxPieces}

FilterCalls ==
    {[fn |-> "parse_filter_categories", arg |-> None, pieces |-> <<>>]}
    \cup {[fn |-> "parse_filter_categories", arg |-> Str(join(ps)), pieces |-> ps] :
          ps \in PieceLists}

FilterInit ==
    /\ store = EmptyDict
    /\ data = EmptyDict
    /\ pc = Idle
    /\ out = <<>>
    /\ now = 0
    /\ run = NoRun
    /\ prev = EmptyDict
    /\ call \in FilterCalls
    /\ ret = Pending

\* the call returns
Return ==
    /\ call.fn = "parse_filter_categories"
    /\ ret = Pending
    /\ ret' = parse_filter_categories(call.arg)
    /\ UNCHANGED <<store, data, pc, out, now, run, prev, call>>

FilterNext == Return

FilterSpec == FilterInit /\ [][FilterNext]_vars

(***************************************************************************)
(* What status and backlog list display, and the functions on their own:   *)
(* an argument is drawn and the function is applied.                       *)
(***************************************************************************)
\* cmd_status from the parsed filter on: the done entries and the active
\* task it prints
status_shown(today, filter_categories) ==
    LET completed_tasks == IF filter_categories # <<>>
                           THEN filter_tasks_by_categories(today.done, filter_categories)
                           ELSE Returns(today.done)
        active == IF truthy(today.todo)
                  THEN filter_single_task_by_categories(today.todo, filter_categories)
                  ELSE Returns(FALSE)
    IN  IF completed_tasks.raised # "" THEN completed_tasks
        ELSE IF active.raised # "" THEN active
        ELSE Returns([done |-> completed_tasks.value,
                      todo |-> IF active.value THEN today.todo ELSE None])

\* cmd_backlog "list" from the parsed filter on: the items it prints
backlog_list_shown(backlog, filter_categories) ==
    LET filtered_backlog == IF filter_categories # <<>>
                            THEN filter_tasks_by_categories(backlog, filter_categories)
                            ELSE Returns(backlog)
    IN  IF filtered_backlog.raised # "" THEN filtered_backlog
        ELSE IF filtered_backlog.value = <<>> /\ filter_categories # <<>> THEN Returns(<<>>)
        ELSE IF print_backlog_list_raises(filtered_backlog.value)
        THEN Raises("AttributeError")
        ELSE filtered_backlog

\* the backlog after backlog add of each of texts, the i-th at time i
RECURSIVE backlog_added(_)
backlog_added(texts) ==
    IF texts = <<>> THEN <<>>
    ELSE Append(backlog_added(SubSeq(texts, 1, Len(texts) - 1)),
                create_task_data(Str(strip(texts[Len(texts)])), Len(texts)))

\* today's bucket after add of each of texts, the i-th at time i, each but
\* the last completed by done before the next add
RECURSIVE today_added(_)
today_added(texts) ==
    IF texts = <<>> THEN [todo |-> None, done |-> <<>>]
    ELSE LET before == today_added(SubSeq(texts, 1, Len(texts) - 1))
             today == IF truthy(before.todo)
                      THEN complete_current_task(before, Len(texts) - 1, Len(texts))
                      ELSE before
         IN  [today EXCEPT !.todo = create_task_data(Str(strip(texts[Len(texts)])),
                                                     Len(texts))]

\* backlog list --filter and status --filter after the tasks texts were added
show_added(texts, filter) ==
    LET parsed == parse_filter_categories(filter) IN
    IF ~parsed.is_valid THEN Raises(parsed.error.msg)
    ELSE Returns([backlog |-> backlog_list_shown(backlog_added(texts), parsed.categories),
                  status |-> status_shown(today_added(texts), parsed.categories)])

MaxTokenLen == 3

MaxTextLen == 4

MaxTasks == 3

MaxAdded == 2

\* tokens for validate_tag_format: short ones over a few characters, and
\* tokens around the length limit
TokenChars == {"a", "W", "5", "_", "-", "!", " ", "\n", "@"}

LongToken(n) == [i \in 1..n |-> "a"]

Tokens ==
    UNION {[1..n -> TokenChars] : n \in 0..MaxTokenLen}
    \cup {LongToken(MaxTagLength - 1), LongToken(MaxTagLength), LongToken(MaxTagLength + 1),
          Append(LongToken(MaxTagLength - 1), "\n"), Append(LongToken(MaxTagLength), "\n"),
          Append(LongToken(MaxTagLength - 1), "!")}

\* texts for parse_tags
TextChars == {"@", "#", "W", "w", "a", "-", " "}

Texts == {None} \cup {Str(t) : t \in UNION {[1..n -> TextChars] : n \in 0..MaxTextLen}}

\* the texts of the stored records: no category, one, two
RecordTexts == {<<"a">>, <<"@", "W">>, <<"@", "a", " ", "@", "w">>}

\* a done entry holding task
DoneEntry(task) == [kind |-> "dict", id |-> 1, task |-> task, ts |-> 0]

\* a dict with a task text and no categories, as earlier versions wrote it
LegacyTask(text) == [kind |-> "dict", task |-> Str(text), ts |-> 0]

\* the shapes the program has written: plain strings, dicts without
\* categories, structured records, items and done entries holding them
WrittenRecords ==
    UNION {{ Str(t), create_task_data(Str(t), 0), LegacyItem(t), NestedItem(t),
             [kind |-> "dict", task |-> LegacyTask(t), ts |-> 0],
             DoneEntry(Str(t)), DoneEntry(LegacyTask(t)),
             DoneEntry(create_task_data(Str(t), 0)) } : t \in RecordTexts}
    \cup {DriftedItem}

\* a done entry whose task is a dict without categories whose own task is a
\* structured record
DoubleNested(text) ==
    DoneEntry([kind |-> "dict", task |-> create_task_data(Str(text), 0), ts |-> 0])

\* records whose text is null or missing
TextlessRecords ==
    { [kind |-> "dict", task |-> None],
      [kind |-> "dict"],
      [kind |-> "dict", ts |-> 0],
      [kind |-> "dict", note |-> Str(<<"s", "e", "e", " ", "@", "w">>)],
      DoneEntry([kind |-> "dict"]),
      DoneEntry([kind |-> "dict", ts |-> 0]),
      DoneEntry([kind |-> "dict", task |-> None]) }

Records == WrittenRecords \cup TextlessRecords \cup {DoubleNested(t) : t \in RecordTexts}

\* the records the lists are made of
ListRecords ==
    { Str(<<"@", "W">>), create_task_data(Str(<<"a">>), 0),
      create_task_data(Str(<<"@", "a", " ", "@", "w">>), 0),
      LegacyItem(<<"@", "W">>), DoneEntry(LegacyTask(<<"@", "a", " ", "@", "w">>)),
      DoneEntry(Str(<<"a">>)), DoneEntry([kind |-> "dict"]),
      DoubleNested(<<"@", "W">>) }

Filters == {<<>>, <<<<"w">>>>, <<<<"a">>>>, <<<<"b">>, <<"w">>>>}

\* records for migrate_task_to_tagged_format
MigrateRecords ==
    UNION {{ create_task_data(Str(t), 0), LegacyTask(t),
             [kind |-> "dict", task |-> Str(t)],
             [kind |-> "dict", task |-> Str(t), categories |-> <<<<"b">>>>],
             [kind |-> "dict", id |-> 1, task |-> Str(t), tags |-> <<>>, ts |-> 0] }
           : t \in RecordTexts}
    \cup {DriftedItem, [kind |-> "dict", task |-> None], [kind |-> "dict", ts |-> 0]}

\* the tasks a user adds, and the filters asked for, in either case
AddedTexts == {<<"@", "W">>, <<"@", "w">>, <<"@", "a">>, <<"@", "A", " ", "@", "w">>, <<"b">>}

AddedFilters ==
    { Str(<<"@", "W">>), Str(<<"@", "w">>), Str(<<"@", "a">>), Str(<<"@", "A">>),
      Str(<<"@", "a", ",", "@", "W">>), Str(<<"@", "A", ",", "@", "w">>) }

ShowCalls ==
    {[fn |-> "show_added", texts |-> ts, filter |-> f] :
     ts \in UNION {[1..n -> AddedTexts] : n \in 1..MaxAdded}, f \in AddedFilters}

FunctionCalls ==
    {[fn |-> "validate_tag_format", tag |-> t] : t \in Tokens}
    \cup {[fn |-> "parse_tags", task_text |-> t] : t \in Texts}
    \cup {[fn |-> "filter_single_task_by_categories", task |-> r, filter_categories |-> f] :
          r \in Records, f \in Filters}
    \cup {[fn |-> "filter_tasks_by_categories", tasks |-> ts, filter_categories |-> f] :
          ts \in UNION {[1..n -> ListRecords] : n \in 0..MaxTasks}, f \in Filters}
    \cup {[fn |-> "migrate_task_to_tagged_format", task_data |-> r] : r \in MigrateRecords}
    \cup ShowCalls

NotReturned == [raised |-> "pending", value |-> None]

FunctionInit ==
    /\ store = EmptyDict
    /\ data = EmptyDict
    /\ pc = Idle
    /\ out = <<>>
    /\ now = 0
    /\ run = NoRun
    /\ prev = EmptyDict
    /\ call \in FunctionCalls
    /\ ret = NotReturned

Called(fn) ==
    /\ call.fn = fn
    /\ ret = NotReturned
    /\ UNCHANGED <<store, data, pc, out, now, run, prev, call>>

FunctionNext ==
    \/ Called("validate_tag_format") /\ ret' = Returns(validate_tag_format(call.tag))
    \/ Called("parse_tags") /\ ret' = Returns(parse_tags(call.task_text))
    \/ /\ Called("filter_single_task_by_categories")
       /\ ret' = filter_single_task_by_categories(call.task, call.filter_categories)
    \/ /\ Called("filter_tasks_by_categories")
       /\ ret' = filter_tasks_by_categories(call.tasks, call.filter_categories)
    \/ /\ Called("migrate_task_to_tagged_format")
       /\ ret' = migrate_task_to_tagged_format(call.task_data)
    \/ Called("show_added") /\ ret' = show_added(call.texts, call.filter)

FunctionSpec == FunctionInit /\ [][FunctionNext]_vars

(***************************************************************************)
(* save and load on their own, with the file seen as the text it holds.    *)
(* json.dumps gives the text of a dict; write_text opens the file for      *)
(* writing, which empties it, and then writes the text; the process may be *)
(* interrupted between any two of these steps.  The commands above take    *)
(* save by its two clean outcomes: written, or refused before the file is  *)
(* opened.                                                                 *)
(***************************************************************************)
\* the text of a file: the pieces written so far
Text(tokens) == [kind |-> "text", tokens |-> tokens]

OpenBrace == [kind |-> "{"]

CloseBrace == [kind |-> "}"]

Item(k, v) == [kind |-> "item", key |-> k, value |-> v]

\* the keys of a store in the order they are written
KeyOrder == <<"backlog">> \o DateStrings

\* a value json cannot write (a set, say)
Unserializable == [kind |-> "set"]

\* whether json can write d: no active task is such a value
serializable(d) == \A k \in DOMAIN d \ {"backlog"} : d[k].todo # Unserializable

RECURSIVE dumps_items(_, _)
dumps_items(d, i) ==
    IF i > Len(KeyOrder) THEN <<>>
    ELSE (IF KeyOrder[i] \in DOMAIN d THEN <<Item(KeyOrder[i], d[KeyOrder[i]])>> ELSE <<>>)
         \o dumps_items(d, i + 1)

\* json.dumps(data, indent=2): raises TypeError on a value it cannot write
dumps(d) == IF serializable(d) THEN Returns(<<OpenBrace>> \o dumps_items(d, 1) \o <<CloseBrace>>)
            ELSE Raises("TypeError")

\* json.loads(content): a text that is not one whole document raises JSONDecodeError
loads(content) ==
    IF /\ Len(content) >= 2
       /\ content[1] = OpenBrace
       /\ content[Len(content)] = CloseBrace
       /\ \A i \in 2..(Len(content) - 1) : content[i].kind = "item"
    THEN LET at == 2..(Len(content) - 1)
         IN  Returns([k \in {content[i].key : i \in at} |->
                         content[CHOOSE i \in at : content[i].key = k].value])
    ELSE Raises("JSONDecodeError")

\* load(): the dict read, and what becomes of the file: a text that cannot be
\* parsed is renamed to the backup path, unless the rename fails
load_file(file, rename_ok) ==
    IF file = None THEN [data |-> EmptyDict, file |-> file, out |-> <<>>]
    ELSE IF loads(file.tokens).raised = ""
    THEN [data |-> loads(file.tokens).value, file |-> file, out |-> <<>>]
    ELSE [data |-> EmptyDict,
          file |-> IF rename_ok THEN None ELSE file,
          out |-> <<"Storage file corrupted",
                    IF rename_ok THEN "Corrupted file backed up"
                    ELSE "Could not create backup of corrupted file.">>]

At(place) == [at |-> place, today |-> ""]

\* the dicts handed to save
SaveData ==
    InitStores
    \cup {ensure_today(d) : d \in InitStores}
    \cup {[k \in {DateStrings[1]} |-> [todo |-> Unserializable, done |-> <<>>]]}

\* the files save finds: none, and those of the stores
SavedFiles == {None} \cup {Text(dumps(d).value) : d \in InitStores}

SaveInit ==
    /\ now = 0
    /\ store \in SavedFiles
    /\ data \in SaveData
    /\ pc = At("dumps")
    /\ out = <<>>
    /\ run = [cmd |-> "save"]
    /\ prev = store
    /\ call = [fn |-> "save", content |-> <<>>]
    /\ ret = NotReturned

\* content = json.dumps(data, indent=2)
Dumps ==
    /\ pc = At("dumps")
    /\ IF dumps(data).raised = ""
       THEN /\ call' = [call EXCEPT !.content = dumps(data).value]
            /\ pc' = At("open")
            /\ UNCHANGED <<out, ret>>
       ELSE /\ out' = <<"Data serialization error">>
            /\ ret' = Returns(FALSE)
            /\ pc' = At("returned")
            /\ UNCHANGED call
    /\ UNCHANGED <<store, data, now, run, prev>>

\* write_text opens the file with mode 'w': the file is created or emptied,
\* unless the open is refused (OSError, PermissionError)
Open ==
    /\ pc = At("open")
    /\ \E open_ok \in BOOLEAN :
          IF open_ok
          THEN /\ store' = Text(<<>>)
               /\ pc' = At("write")
               /\ UNCHANGED <<out, ret>>
          ELSE /\ out' = <<"Cannot save to storage file">>
               /\ ret' = Returns(FALSE)
               /\ pc' = At("returned")
               /\ UNCHANGED store
    /\ UNCHANGED <<data, now, run, prev, call>>

\* the text reaches the file piece by piece
Write ==
    /\ pc = At("write")
    /\ Len(store.tokens) < Len(call.content)
    /\ store' = Text(Append(store.tokens, call.content[Len(store.tokens) + 1]))
    /\ UNCHANGED <<data, pc, out, now, run, prev, call, ret>>

\* a write is refused (disk full, file size limit): OSError after the file
\* was emptied
WriteFails ==
    /\ pc = At("write")
    /\ Len(store.tokens) < Len(call.content)
    /\ out' = <<"Cannot save to storage file">>
    /\ ret' = Returns(FALSE)
    /\ pc' = At("returned")
    /\ UNCHANGED <<store, data, now, run, prev, call>>

\* the whole text is written: return True
Written ==
    /\ pc = At("write")
    /\ Len(store.tokens) = Len(call.content)
    /\ ret' = Returns(TRUE)
    /\ pc' = At("returned")
    /\ UNCHANGED <<store, data, out, now, run, prev, call>>

\* the process is interrupted in the middle of save
Interrupt ==
    /\ pc \in {At("dumps"), At("open"), At("write")}
    /\ pc' = At("interrupted")
    /\ UNCHANGED <<store, data, out, now, run, prev, call, ret>>

\* the next command starts with load()
Load ==
    /\ pc \in {At("returned"), At("interrupted")}
    /\ \E rename_ok \in BOOLEAN :
          /\ data' = load_file(store, rename_ok).data
          /\ store' = load_file(store, rename_ok).file
          /\ out' = load_file(store, rename_ok).out
    /\ pc' = At("loaded")
    /\ UNCHANGED <<now, run, prev, call, ret>>

SaveNext == Dumps \/ Open \/ Write \/ WriteFails \/ Written \/ Interrupt \/ Load

SaveSpec == SaveInit /\ [][SaveNext]_vars

(***************************************************************************)
(* Properties of the commands.  A command that has run is seen in the      *)
(* state it leaves before the process exits: run holds what it was given,  *)
(* prev the file it found, data its dictionary, store the file it leaves.  *)
(***************************************************************************)
BucketOf(d, k) == IF k \in DOMAIN d THEN d[k] ELSE [todo |-> None, done |-> <<>>]

BacklogOf(d) == IF "backlog" \in DOMAIN d THEN d["backlog"] ELSE <<>>

DaysOf(d) == DOMAIN d \ {"backlog"}

Ran(cmd) == pc # Idle /\ run.cmd = cmd

\* the date the running command took for today
RunDay == IF pc.at = "select" THEN pc.today
          ELSE IF run.cmd = "select" THEN run.today
          ELSE today_key

\* list without its i-th element (1-based), the others in their order
Without(list, i) == SubSeq(list, 1, i - 1) \o SubSeq(list, i + 1, Len(list))

\* the text of a stored record of any shape: a plain string, a dict whose
\* task is the text, or a dict (backlog item, done entry) whose task is a dict
TextOf(rec) == IF isstr(rec) THEN rec.s
               ELSE IF isstr(rec.task) THEN rec.task.s
               ELSE rec.task.task.s

\* the days other than k are in d what they are in e
OthersSame(d, e, k) == \A x \in DaysOf(e) \ {k} : x \in DOMAIN d /\ d[x] = e[x]

AnsweredYes(typed) == typed # None /\ strip(typed.s) \in {<<"y">>, <<"Y">>}

\* C1: when today's bucket has an active task, cmd_add leaves the bucket and
\* every other day as they are; the backlog gets the new task at its end when
\* the user answered y (in either case) to the prompt and the file could be
\* written; on any other answer the whole store is unchanged.
C1_AddNeverReplacesActive ==
    (Ran("add") /\ truthy(BucketOf(prev, today_key).todo)) =>
        /\ store[today_key] = prev[today_key]
        /\ OthersSame(store, prev, today_key)
        /\ IF AnsweredYes(run.typed) /\ run.write_ok /\ strip(run.task) # <<>>
           THEN /\ Len(BacklogOf(store)) = Len(BacklogOf(prev)) + 1
                /\ SubSeq(BacklogOf(store), 1, Len(BacklogOf(prev))) = BacklogOf(prev)
                /\ TextOf(BacklogOf(store)[Len(BacklogOf(store))]) = strip(run.task)
           ELSE store = prev

C1_Witness ==
    /\ Ran("add")
    /\ truthy(BucketOf(prev, today_key).todo)
    /\ AnsweredYes(run.typed)
    /\ Len(BacklogOf(store)) = Len(BacklogOf(prev)) + 1
    /\ store[today_key].todo = prev[today_key].todo

\* C2: with an active task, cmd_done appends exactly one entry to the end of
\* today's done list, holding the completed task with its text unchanged and in
\* the structured shape, the id drawn and the time of completion; the active
\* task becomes empty; the earlier done entries, the backlog and the other days
\* are unchanged.  Without an active task the store is unchanged.
C2_DoneAppendsOneEntry ==
    Ran("done") =>
        LET k == RunDay
            before == BucketOf(prev, k)
        IN  IF truthy(before.todo)
            THEN /\ Len(data[k].done) = Len(before.done) + 1
                 /\ SubSeq(data[k].done, 1, Len(before.done)) = before.done
                 /\ LET entry == data[k].done[Len(data[k].done)]
                    IN  /\ isdict(entry.task)
                        /\ TextOf(entry) = TextOf(before.todo)
                        /\ isdict(before.todo) => entry.task = before.todo
                        /\ entry.id = run.id
                        /\ entry.ts = run.at
                 /\ data[k].todo = None
                 /\ BacklogOf(data) = BacklogOf(prev)
                 /\ OthersSame(data, prev, k)
                 /\ store = IF run.write_ok THEN data ELSE prev
            ELSE store = prev

C2_Witness ==
    /\ Ran("done")
    /\ isstr(BucketOf(prev, RunDay).todo)
    /\ truthy(BucketOf(prev, RunDay).todo)
    /\ Len(BucketOf(prev, RunDay).done) >= 1
    /\ Len(BucketOf(store, RunDay).done) = Len(BucketOf(prev, RunDay).done) + 1

\* C3: backlog pull with no active task and an explicit index i, 1 <= i <= n,
\* removes exactly the i-th backlog element, keeps the others in their order,
\* and makes a task with the removed element's text today's active task.
C3_PullRemovesIth ==
    (/\ Ran("backlog pull")
     /\ run.index # None
     /\ ~truthy(BucketOf(prev, today_key).todo)
     /\ 1 <= run.index.n
     /\ run.index.n <= Len(BacklogOf(prev))) =>
        /\ BacklogOf(data) = Without(BacklogOf(prev), run.index.n)
        /\ truthy(data[today_key].todo)
        /\ TextOf(data[today_key].todo) = TextOf(BacklogOf(prev)[run.index.n])
        /\ data[today_key].done = BucketOf(prev, today_key).done
        /\ OthersSame(data, prev, today_key)
        /\ store = IF run.write_ok THEN data ELSE prev

C3_Witness ==
    /\ Ran("backlog pull")
    /\ run.index = PyInt(2)
    /\ Len(BacklogOf(prev)) = 3
    /\ Len(BacklogOf(store)) = 2
    /\ truthy(BucketOf(store, today_key).todo)

\* C4: backlog pull with an active task, or with an empty backlog, reports the
\* failure and leaves the active task, the backlog and the file unchanged,
\* whatever index was given.
C4_PullBlocked ==
    (/\ Ran("backlog pull")
     /\ \/ truthy(BucketOf(prev, today_key).todo)
        \/ BacklogOf(prev) = <<>>) =>
        /\ store = prev
        /\ out = IF truthy(BucketOf(prev, today_key).todo)
                 THEN <<"Active task already exists">>
                 ELSE <<"No backlog items to pull.">>
        /\ data[today_key].todo = BucketOf(prev, today_key).todo
        /\ BacklogOf(data) = BacklogOf(prev)

C4_Witness ==
    /\ Ran("backlog pull")
    /\ truthy(BucketOf(prev, today_key).todo)
    /\ run.index = PyInt(1)
    /\ Len(BacklogOf(prev)) >= 1
    /\ out = <<"Active task already exists">>

\* C5: backlog pull with no active task, a non-empty backlog and an explicit
\* index outside 1..len(backlog), 0 and negative values included, reports an
\* invalid index and leaves the active task and the backlog unchanged.
C5_OutOfRangeIndexFails ==
    (/\ Ran("backlog pull")
     /\ run.index # None
     /\ ~truthy(BucketOf(prev, today_key).todo)
     /\ BacklogOf(prev) # <<>>
     /\ (run.index.n < 1 \/ run.index.n > Len(BacklogOf(prev)))) =>
        /\ out = <<"Invalid index">>
        /\ data[today_key].todo = BucketOf(prev, today_key).todo
        /\ BacklogOf(data) = BacklogOf(prev)
        /\ store = prev

\* the record itself of a stored item: the inner dict of a nested item
CoreOf(rec) == IF isstr(rec) THEN rec
               ELSE IF isdict(rec.task) THEN rec.task
               ELSE rec

\* active is the record core in text and, where core has them, in categories,
\* tags and creation timestamp
SameRecord(active, core) ==
    IF isstr(core) THEN isdict(active) /\ active.task = core
    ELSE /\ isdict(active)
         /\ active.task = core.task
         /\ haskey(core, "categories") => active.categories = core.categories
         /\ haskey(core, "tags") => active.tags = core.tags
         /\ haskey(core, "ts") => active.ts = core.ts

\* a backlog pull, or a numeric choice at the prompt after done, took an item
Pulled ==
    /\ pc = Exiting
    /\ run.cmd \in {"backlog pull", "select"}
    /\ Len(BacklogOf(store)) + 1 = Len(BacklogOf(prev))

\* C6: after a successful pull (backlog pull, or the numeric choice at the
\* prompt after done) the active task equals the removed backlog record in
\* text, categories, tags and creation timestamp.
C6_PulledRecordIsMoved ==
    Pulled =>
        \E i \in 1..Len(BacklogOf(prev)) :
            /\ BacklogOf(store) = Without(BacklogOf(prev), i)
            /\ SameRecord(store[RunDay].todo, CoreOf(BacklogOf(prev)[i]))

\* the stored records of d: backlog items, active tasks and done entries
RecordsOf(d) ==
    {BacklogOf(d)[i] : i \in 1..Len(BacklogOf(d))}
    \cup {d[k].todo : k \in {x \in DaysOf(d) : truthy(d[x].todo)}}
    \cup UNION {{d[k].done[i] : i \in 1..Len(d[k].done)} : k \in DaysOf(d)}

\* how many places of d hold a record with the text t
Occurrences(d, t) ==
    Cardinality({i \in 1..Len(BacklogOf(d)) : TextOf(BacklogOf(d)[i]) = t})
    + Cardinality({k \in DaysOf(d) : truthy(d[k].todo) /\ TextOf(d[k].todo) = t})
    + Cardinality(UNION {{<<k, i>> : i \in {j \in 1..Len(d[k].done) :
                                            TextOf(d[k].done[j]) = t}} : k \in DaysOf(d)})

\* the text of the record the running command may create: add, backlog add,
\* and the new task typed after the choice n at the prompt after done
Created ==
    IF run.cmd \in {"add", "backlog add"} THEN {strip(run.task)}
    ELSE IF run.cmd = "select" /\ run.typed_task # None THEN {strip(run.typed_task.s)}
    ELSE {}

\* the text of the record the running command may discard: backlog remove
Discarded ==
    IF /\ run.cmd = "backlog remove"
       /\ 1 <= run.index
       /\ run.index <= Len(BacklogOf(prev))
    THEN {TextOf(BacklogOf(prev)[run.index])}
    ELSE {}

\* C7: every command leaves each record in as many places as it found it:
\* done and pull move a record and leave no copy behind, only add, backlog add
\* and the new task of the prompt after done put one more record in the store,
\* and only backlog remove takes one out.
C7_SingleOwnership ==
    pc # Idle =>
        \A t \in {TextOf(r) : r \in RecordsOf(prev) \cup RecordsOf(store)} :
            LET delta == Occurrences(store, t) - Occurrences(prev, t)
            IN  \/ delta = 0
                \/ delta = 1 /\ t \in Created
                \/ delta = 0 - 1 /\ t \in Discarded

C7_Witness ==
    /\ pc = Exiting
    /\ run.cmd = "select"
    /\ Len(BacklogOf(store)) + 1 = Len(BacklogOf(prev))
    /\ truthy(BucketOf(store, RunDay).todo)
    /\ Len(BucketOf(store, RunDay).done) >= 1

\* a structured record is valid when its categories and tags are those of its text
ValidRecord(core) ==
    (isdict(core) /\ haskey(core, "categories")) =>
        /\ core.categories = parse_tags(core.task).categories
        /\ core.tags = parse_tags(core.task).tags

CoresOf(d) == {CoreOf(r) : r \in RecordsOf(d)}

\* C8: every record a command writes has the categories and tags that
\* parse_tags gives for its text, so a store whose structured records are all
\* valid is left with all its structured records valid.
C8_ValidRecords ==
    pc # Idle =>
        /\ \A core \in CoresOf(store) \ CoresOf(prev) : ValidRecord(core)
        /\ (\A core \in CoresOf(prev) : ValidRecord(core))
               => (\A core \in CoresOf(store) : ValidRecord(core))

C8_Witness ==
    /\ Ran("add")
    /\ \E core \in CoresOf(store) \ CoresOf(prev) :
           /\ core.task = Str(<<"@", "W", "#", "u", "@", "w">>)
           /\ core.categories = <<<<"w">>>>
           /\ core.tags = <<<<"u">>>>

(***************************************************************************)
(* Properties of parse_filter_categories, on the pieces the filter string  *)
(* was written with.                                                       *)
(***************************************************************************)
Returned == call.fn = "parse_filter_categories" /\ ret # Pending

\* the pieces that are not empty once trimmed, trimmed, in their order
TrimmedPieces ==
    SelectSeq([i \in 1..Len(call.pieces) |-> strip(call.pieces[i])],
              LAMBDA piece : piece # <<>>)

ValidPiece(piece) == piece[1] = "@" /\ validate_tag_format(Tail(piece))

InvalidAt == {i \in 1..Len(TrimmedPieces) : ~ValidPiece(TrimmedPieces[i])}

Leftmost(S) == CHOOSE i \in S : \A j \in S : i <= j

Names == [i \in 1..Len(TrimmedPieces) |-> lower(Tail(TrimmedPieces[i]))]

\* the positions where a name occurs for the first time
Firsts == {i \in 1..Len(Names) : \A j \in 1..(i - 1) : Names[j] # Names[i]}

\* the k-th smallest position of Firsts
NthFirst(k) == CHOOSE i \in Firsts : Cardinality({j \in Firsts : j <= i}) = k

\* C10: when every non-empty trimmed piece is @ followed by a valid token,
\* parse_filter_categories succeeds and returns the names without the sigil,
\* lowercased, each once, in the order of their first occurrence; the pieces
\* that are empty once trimmed count for nothing.
C10_NamesInFirstOccurrenceOrder ==
    (Returned /\ InvalidAt = {}) =>
        /\ ret.is_valid
        /\ ret.error = NoError
        /\ Len(ret.categories) = Cardinality(Firsts)
        /\ \A k \in 1..Cardinality(Firsts) : ret.categories[k] = Names[NthFirst(k)]

C10_Witness ==
    /\ Returned
    /\ call.pieces = <<<<" ", "@", "W", " ">>, <<"@", "a">>, <<"@", "w">>>>
    /\ ret.is_valid
    /\ ret.categories = <<<<"w">>, <<"a">>>>

\* C11: parse_filter_categories succeeds with an empty category list and an
\* empty error message on every input without a non-empty piece: None, the
\* empty string, whitespace only, and any mix of commas and whitespace.
C11_NoPieceSucceeds ==
    (/\ Returned
     /\ \A i \in 1..Len(call.pieces) : \A j \in 1..Len(call.pieces[i]) :
            call.pieces[i][j] \in SpaceChars) =>
        /\ ret.is_valid
        /\ ret.categories = <<>>
        /\ ret.error.msg = ""

C11_Witness ==
    /\ Returned
    /\ call.pieces = <<<<" ">>, <<>>, <<" ">>>>
    /\ call.arg = Str(<<" ", ",", ",", " ">>)
    /\ ret.is_valid
    /\ ret.categories = <<>>

(***************************************************************************)
(* Properties of the functions on their own.                               *)
(***************************************************************************)
Did(fn) == call.fn = fn /\ ret # NotReturned

\* C12: validate_tag_format(token) is true exactly when the token has 1 to 50
\* characters and each of them is a letter, a digit, an underscore or a
\* hyphen; any other character anywhere, a trailing newline included, makes
\* it false.
C12_ValidIffLengthAndClass ==
    Did("validate_tag_format") =>
        (ret.value <=> /\ 1 <= Len(call.tag)
                       /\ Len(call.tag) <= MaxTagLength
                       /\ \A i \in 1..Len(call.tag) : call.tag[i] \in TagChars)

\* the elements of S in increasing order
Sorted(S) == [k \in 1..Cardinality(S) |->
                 CHOOSE i \in S : Cardinality({j \in S : j <= i}) = k]

\* xs without the repetitions of its elements: each where it first occurs
FirstOccurrences(xs) ==
    LET kept == Sorted({i \in 1..Len(xs) : \A j \in 1..(i - 1) : xs[j] # xs[i]})
    IN  [k \in 1..Len(kept) |-> xs[kept[k]]]

\* where the maximal run of [a-zA-Z0-9_-] that starts at i ends
RunEnd(t, i) == CHOOSE e \in i..Len(t) :
                    /\ \A j \in i..e : t[j] \in TagChars
                    /\ e = Len(t) \/ t[e + 1] \notin TagChars

\* the maximal runs of [a-zA-Z0-9_-] that follow a sigil in t, lowercased,
\* from left to right
RunsAfter(sigil, t) ==
    LET at == Sorted({i \in 1..(Len(t) - 1) : t[i] = sigil /\ t[i + 1] \in TagChars})
    IN  [k \in 1..Len(at) |-> lower(SubSeq(t, at[k] + 1, RunEnd(t, at[k] + 1)))]

\* C13: parse_tags(T) returns T unchanged, with the lowercased maximal runs of
\* [A-Za-z0-9_-] that follow each @ as categories, each once in the order of
\* first occurrence, and the same for # as tags; a bare @ or # gives nothing,
\* and an empty or missing text gives two empty lists.
C13_ParseTagsRuns ==
    Did("parse_tags") =>
        /\ ret.value.raised = ""
        /\ ret.value.text = call.task_text
        /\ IF call.task_text = None
           THEN ret.value.categories = <<>> /\ ret.value.tags = <<>>
           ELSE /\ ret.value.categories = FirstOccurrences(RunsAfter("@", call.task_text.s))
                /\ ret.value.tags = FirstOccurrences(RunsAfter("#", call.task_text.s))

C13_Witness ==
    /\ Did("parse_tags")
    /\ call.task_text = Str(<<"@", "W", "@", "w">>)
    /\ ret.value.categories = <<<<"w">>>>
    /\ ret.value.tags = <<>>

\* the categories of a record the program has written: those stored in it or
\* in the record it holds, else those of its text
RecordCategories(rec) ==
    LET core == CoreOf(rec)
    IN  IF isstr(core) THEN parse_tags(core).categories
        ELSE IF haskey(core, "categories") THEN core.categories
        ELSE parse_tags(core.task).categories

Shares(xs, ys) == \E i \in 1..Len(xs) : \E j \in 1..Len(ys) : xs[i] = ys[j]

\* C14: filter_single_task_by_categories(record, F) is true for a record of
\* any shape when F is empty; for a non-empty F it is true exactly when the
\* record's categories, stored or parsed from its text, share an element with F.
C14_SingleMatchIsAny ==
    Did("filter_single_task_by_categories") =>
        /\ call.filter_categories = <<>> => (ret.raised = "" /\ ret.value = TRUE)
        /\ (call.filter_categories # <<>> /\ call.task \in WrittenRecords) =>
               /\ ret.raised = ""
               /\ ret.value = Shares(RecordCategories(call.task), call.filter_categories)

C14_Witness ==
    /\ Did("filter_single_task_by_categories")
    /\ call.task = create_task_data(Str(<<"@", "a", " ", "@", "w">>), 0)
    /\ call.filter_categories = <<<<"b">>, <<"w">>>>
    /\ ret.raised = ""
    /\ ret.value = TRUE

\* C15: filter_tasks_by_categories returns exactly the elements on which
\* filter_single_task_by_categories is true, in their order and as many times
\* as they occur, each as it was given.
C15_ListAgreesWithSingle ==
    (/\ Did("filter_tasks_by_categories")
     /\ \A i \in 1..Len(call.tasks) :
            filter_single_task_by_categories(call.tasks[i], call.filter_categories).raised = "") =>
        /\ ret.raised = ""
        /\ ret.value = SelectSeq(call.tasks, LAMBDA task :
               filter_single_task_by_categories(task, call.filter_categories).value)

C15_Witness ==
    /\ Did("filter_tasks_by_categories")
    /\ call.tasks = <<Str(<<"@", "W">>), create_task_data(Str(<<"a">>), 0), Str(<<"@", "W">>)>>
    /\ call.filter_categories = <<<<"w">>>>
    /\ ret.raised = ""
    /\ ret.value = <<Str(<<"@", "W">>), Str(<<"@", "W">>)>>

\* a record of a historical shape without stored categories of its own: a
\* plain string, a dict with a task text and no categories, or a done entry or
\* item whose task is a string or a dict holding a text
LegacyShape(rec) ==
    \/ isstr(rec)
    \/ /\ isdict(rec)
       /\ ~haskey(rec, "categories")
       /\ haskey(rec, "task")
       /\ \/ isstr(rec.task)
          \/ /\ isdict(rec.task)
             /\ haskey(rec.task, "task")
             /\ isstr(rec.task.task)

\* the categories such a record is matched on: those of the inner task when
\* it stores them, else those parse_tags finds in the text
LegacyCategories(rec) ==
    IF isstr(rec) THEN parse_tags(rec).categories
    ELSE IF isstr(rec.task) THEN parse_tags(rec.task).categories
    ELSE IF haskey(rec.task, "categories") THEN rec.task.categories
    ELSE parse_tags(rec.task.task).categories

C17_DoubleNestedIsFiltered ==
    /\ (/\ Did("filter_tasks_by_categories")
        /\ call.filter_categories # <<>>
        /\ Len(call.tasks) = 1
        /\ call.tasks[1] \in {DoubleNested(t) : t \in RecordTexts}) =>
           /\ ret.raised = ""
           /\ ret.value = IF Shares(call.tasks[1].task.task.categories, call.filter_categories)
                          THEN call.tasks ELSE <<>>
    /\ (/\ Did("filter_single_task_by_categories")
        /\ call.filter_categories # <<>>
        /\ call.task \in {DoubleNested(t) : t \in RecordTexts}) =>
           /\ ret.raised = ""
           /\ ret.value = Shares(call.task.task.task.categories, call.filter_categories)

\* C18: on a record whose text is null or missing both filter functions,
\* given a non-empty filter, raise nothing and do not match the record.
C18_TextlessNeverRaises ==
    /\ (/\ Did("filter_single_task_by_categories")
        /\ call.filter_categories # <<>>
        /\ call.task \in TextlessRecords) =>
           (ret.raised = "" /\ ret.value = FALSE)
    /\ (/\ Did("filter_tasks_by_categories")
        /\ call.filter_categories # <<>>
        /\ \A i \in 1..Len(call.tasks) : call.tasks[i] \in TextlessRecords) =>
           (ret.raised = "" /\ ret.value = <<>>)

\* C19: migrate_task_to_tagged_format returns a record that has categories
\* and tags as it is; to a record lacking them it gives the categories and
\* tags of parse_tags of its text, keeps every other field and leaves the
\* record it was given unmodified; applied to its own result it changes nothing.
C19_MigrateIdempotent ==
    Did("migrate_task_to_tagged_format") =>
        LET given == call.task_data
            text == IF haskey(given, "task") THEN given.task ELSE Str(<<>>)
        IN  /\ ret.raised = ""
            /\ ret.task_data = given
            /\ IF haskey(given, "categories") /\ haskey(given, "tags")
               THEN ret.value = given
               ELSE /\ DOMAIN ret.value = DOMAIN given \cup {"categories", "tags"}
                    /\ ret.value.categories = parse_tags(text).categories
                    /\ ret.value.tags = parse_tags(text).tags
                    /\ \A k \in DOMAIN given \ {"categories", "tags"} : ret.value[k] = given[k]
            /\ migrate_task_to_tagged_format(ret.value).raised = ""
            /\ migrate_task_to_tagged_format(ret.value).value = ret.value

C19_Witness ==
    /\ Did("migrate_task_to_tagged_format")
    /\ call.task_data = LegacyTask(<<"@", "a", " ", "@", "w">>)
    /\ ret.value.categories = <<<<"a">>, <<"w">>>>
    /\ ret.value.ts = 0

\* which of the added tasks a display shows: the times of creation of the
\* backlog items listed, of the done entries printed, and of the active task
ShownOf(result) ==
    [backlog |-> IF result.value.backlog.raised # "" THEN <<0>>
                 ELSE [i \in 1..Len(result.value.backlog.value) |->
                          result.value.backlog.value[i].ts],
     done |-> [i \in 1..Len(result.value.status.value.done) |->
                  result.value.status.value.done[i].task.ts],
     todo |-> IF result.value.status.value.todo = None THEN 0
              ELSE result.value.status.value.todo.ts]

\* C20: for tasks added through add and backlog add, what status --filter and
\* backlog list --filter show does not change when the letter case of the
\* filter string or of the task texts is changed.
C20_FilterIgnoresCase ==
    Did("show_added") =>
        /\ ret.raised = ""
        /\ ret.value.status.raised = ""
        /\ \A other \in ShowCalls :
               (/\ lower(other.filter.s) = lower(call.filter.s)
                /\ Len(other.texts) = Len(call.texts)
                /\ \A i \in 1..Len(call.texts) : lower(other.texts[i]) = lower(call.texts[i])) =>
                   ShownOf(show_added(other.texts, other.filter)) = ShownOf(ret)

C20_Witness ==
    /\ Did("show_added")
    /\ call.texts = <<<<"@", "A", " ", "@", "w">>, <<"@", "a">>>>
    /\ call.filter = Str(<<"@", "W">>)
    /\ ShownOf(ret) = [backlog |-> <<1>>, done |-> <<1>>, todo |-> 0]

(***************************************************************************)
(* Properties of the prompt after done, of the backlog and of the days.    *)
(***************************************************************************)
\* the prompt after done has been answered
Selected == pc = Exiting /\ run.cmd = "select"

\* C21: after done has completed the active task with a non-empty backlog,
\* the answer p at the prompt takes the first backlog item out of the backlog
\* and makes it the active task, which the file then holds.
C21_PromptPullsNext ==
    (/\ Selected
     /\ run.typed # None
     /\ lower(strip(run.typed.s)) = <<"p">>
     /\ BacklogOf(prev) # <<>>
     /\ run.write_ok) =>
        /\ BacklogOf(store) = Without(BacklogOf(prev), 1)
        /\ truthy(BucketOf(store, RunDay).todo)
        /\ TextOf(BucketOf(store, RunDay).todo) = TextOf(BacklogOf(prev)[1])

\* C22: the file is rewritten atomically: at every point of save, an
\* interruption in its middle included, the file holds the whole store it held
\* before or the whole store being saved, never an empty, cut or unparsable
\* text; and when the dict cannot be serialized the file is left as it was.
C22_FileIsWholeStore ==
    (run.cmd = "save" /\ pc # At("loaded")) =>
        /\ \/ store = prev
           \/ dumps(data).raised = "" /\ store = Text(dumps(data).value)
        /\ store # None => loads(store.tokens).raised = ""
        /\ dumps(data).raised # "" => store = prev

\* the places of the done entries of d: day and position
DonePlaces(d) == UNION {{<<k, i>> : i \in 1..Len(d[k].done)} : k \in DaysOf(d)}

\* C23: in every store the program reaches, no two done entries have the
\* same id.
C23_DoneIdsDistinct ==
    \A p \in DonePlaces(store), q \in DonePlaces(store) :
        p # q => store[p[1]].done[p[2]].id # store[q[1]].done[q[2]].id

\* the task the command line gives is a valid task name
ValidTask == strip(run.task) # <<>>

\* C24: the backlog is kept in the order of insertion: add diverted to the
\* backlog and backlog add put the new task at the end; pull, remove and the
\* prompt after done take out exactly one position; no command does anything
\* else to the backlog; and backlog pull in plain mode without an index takes
\* the first item.
C24_BacklogInInsertionOrder ==
    pc # Idle =>
        LET before == BacklogOf(prev)
            after == BacklogOf(store)
        IN  /\ \/ after = before
               \/ /\ run.cmd \in {"add", "backlog add"}
                  /\ after = Append(before, after[Len(after)])
                  /\ TextOf(after[Len(after)]) = strip(run.task)
               \/ /\ run.cmd \in {"backlog pull", "backlog remove", "select"}
                  /\ \E i \in 1..Len(before) : after = Without(before, i)
            /\ (/\ run.cmd = "backlog add"
                /\ ValidTask
                /\ run.write_ok) => Len(after) = Len(before) + 1
            /\ (/\ run.cmd = "backlog pull"
                /\ run.index = None
                /\ run.plain
                /\ ~truthy(BucketOf(prev, today_key).todo)
                /\ before # <<>>
                /\ run.write_ok) =>
                   /\ after = Without(before, 1)
                   /\ TextOf(store[today_key].todo) = TextOf(before[1])

C24_Witness ==
    /\ Ran("backlog pull")
    /\ run.index = None
    /\ run.plain
    /\ Len(BacklogOf(prev)) = 3
    /\ BacklogOf(store) = Without(BacklogOf(prev), 1)
    /\ TextOf(BacklogOf(prev)[1]) # TextOf(BacklogOf(prev)[3])

\* a command that does nothing but ensure_today to the dict it has loaded
EnsuredOnly == pc = Exiting /\ run.cmd \in {"newday", "status", "backlog list"}

\* C25: ensure_today creates today's bucket, with no active task and an empty
\* done list, and the backlog, empty, only where they are absent; what is
\* there is left as it is, and a second call changes nothing.
C25_EnsureTodayIdempotent ==
    EnsuredOnly =>
        /\ DOMAIN data = DOMAIN prev \cup {"backlog", today_key}
        /\ data[today_key] = IF today_key \in DOMAIN prev THEN prev[today_key]
                             ELSE [todo |-> None, done |-> <<>>]
        /\ data["backlog"] = IF "backlog" \in DOMAIN prev THEN prev["backlog"] ELSE <<>>
        /\ OthersSame(data, prev, today_key)
        /\ ensure_today(data) = data

C25_Witness ==
    /\ EnsuredOnly
    /\ run.cmd = "newday"
    /\ today_key \in DOMAIN prev
    /\ truthy(prev[today_key].todo)
    /\ Len(prev[today_key].done) >= 1
    /\ data = prev

\* the number typed at the prompt after done, when a number was typed
TypedNumber == CHOOSE k \in 0..(MaxBacklog + 1) : run.typed = Str(<<DigitStrings[k + 1]>>)

\* C26: at the prompt after done, a number k of 1..len(backlog) pulls the k-th
\* backlog item into the active slot and leaves the others in order; any other
\* number, 0 or above the length, reports an invalid index; Enter and a
\* cancelled input do nothing; in those cases the active slot stays empty and
\* the backlog is unchanged.
C26_PromptNumberPullsKth ==
    Selected =>
        LET before == BacklogOf(prev)
            k == TypedNumber
        IN  /\ (run.typed \in TypedNumbers /\ 1 <= k /\ k <= Len(before)) =>
                   /\ BacklogOf(data) = Without(before, k)
                   /\ truthy(data[RunDay].todo)
                   /\ TextOf(data[RunDay].todo) = TextOf(before[k])
                   /\ data[RunDay].done = prev[RunDay].done
                   /\ store = IF run.write_ok THEN data ELSE prev
            /\ (run.typed \in TypedNumbers /\ (k < 1 \/ k > Len(before))) =>
                   /\ out = <<"Invalid backlog index.">>
                   /\ store = prev
                   /\ data = prev
                   /\ store[RunDay].todo = None
            /\ (run.typed = None \/ run.typed = Str(<<>>)) =>
                   /\ store = prev
                   /\ data = prev
                   /\ store[RunDay].todo = None

C26_Witness ==
    /\ Selected
    /\ run.typed = Str(<<"2">>)
    /\ Len(BacklogOf(prev)) = 3
    /\ BacklogOf(store) = <<BacklogOf(prev)[1], BacklogOf(prev)[3]>>
    /\ TextOf(store[RunDay].todo) = TextOf(BacklogOf(prev)[2])

\* C27: backlog remove with an index i of 1..len(backlog) deletes the i-th
\* item and keeps the others in order, the active task and the done list as
\* they are; with any other index, or an empty backlog, it reports the error
\* and leaves the store unchanged.
C27_RemoveDeletesIth ==
    Ran("backlog remove") =>
        LET before == BacklogOf(prev) IN
        IF 1 <= run.index /\ run.index <= Len(before)
        THEN /\ BacklogOf(data) = Without(before, run.index)
             /\ data[today_key] = BucketOf(prev, today_key)
             /\ OthersSame(data, prev, today_key)
             /\ store = IF run.write_ok THEN data ELSE prev
        ELSE /\ store = prev
             /\ BacklogOf(data) = before
             /\ out = IF before = <<>> THEN <<"No backlog items to remove.">>
                      ELSE <<"Invalid backlog index">>

C27_Witness ==
    /\ Ran("backlog remove")
    /\ run.index = 2
    /\ Len(BacklogOf(prev)) = 3
    /\ truthy(BucketOf(prev, today_key).todo)
    /\ BacklogOf(store) = <<BacklogOf(prev)[1], BacklogOf(prev)[3]>>
    /\ store[today_key] = prev[today_key]

\* C28: cmd_done saves the completion before it asks for the next task: the
\* prompt is reached only when the file holds the store with the task in the
\* done list and no active task; a cancelled or skipped prompt leaves the file
\* so; and when the save fails the prompt is not reached.
C28_DoneSavesBeforePrompt ==
    /\ pc.at = "select" =>
           /\ run.cmd = "done"
           /\ run.write_ok
           /\ store = data
           /\ store[pc.today].todo = None
           /\ Len(store[pc.today].done) = Len(BucketOf(prev, pc.today).done) + 1
           /\ TextOf(store[pc.today].done[Len(store[pc.today].done)])
                  = TextOf(prev[pc.today].todo)
    /\ (Ran("done") /\ ~run.write_ok) => (pc = Exiting /\ store = prev)
    /\ (Selected /\ (run.typed = None \/ run.typed = Str(<<>>))) =>
           /\ store = prev
           /\ store[RunDay].todo = None
           /\ Len(store[RunDay].done) >= 1

C28_Witness ==
    /\ Selected
    /\ run.typed = None
    /\ store = prev
    /\ store[RunDay].todo = None
    /\ Len(store[RunDay].done) = 2
    /\ BacklogOf(store) # <<>>

\* the date of the clock at the time t
DateAt(t) == DateStrings[(t \div TicksPerDay) + 1]

\* C29: a command changes only the bucket of its day and the backlog: the
\* buckets of the other dates are in the file as they were and none is added
\* or deleted; a bucket created for a new day has no active task, whatever an
\* earlier day has left uncompleted; and an active task left in an earlier
\* day's bucket does not keep add from setting the new day's active task.
C29_OtherDaysUntouched ==
    pc # Idle =>
        /\ OthersSame(store, prev, RunDay)
        /\ DaysOf(store) \subseteq DaysOf(prev) \cup {RunDay}
        /\ DaysOf(prev) \subseteq DaysOf(store)
        /\ (/\ RunDay \notin DOMAIN prev
            /\ RunDay \in DOMAIN store
            /\ ~(run.cmd = "add" /\ ValidTask)
            /\ run.cmd # "backlog pull") => store[RunDay] = [todo |-> None, done |-> <<>>]
        /\ (/\ run.cmd = "add"
            /\ ValidTask
            /\ run.write_ok
            /\ ~truthy(BucketOf(prev, DateAt(now)).todo)) =>
               /\ truthy(store[DateAt(now)].todo)
               /\ TextOf(store[DateAt(now)].todo) = strip(run.task)

C29_Witness ==
    /\ Ran("add")
    /\ now = TicksPerDay
    /\ DateStrings[1] \in DOMAIN prev
    /\ truthy(prev[DateStrings[1]].todo)
    /\ DateStrings[2] \notin DOMAIN prev
    /\ DateStrings[2] \in DOMAIN store
    /\ truthy(store[DateStrings[2]].todo)
    /\ store[DateStrings[1]] = prev[DateStrings[1]]

\* status or backlog list has run
Displayed == pc = Exiting /\ run.cmd \in {"status", "backlog list"}

\* C30: status and backlog list never save: whatever the filter, absent, valid
\* or invalid, the file is after the command what it was before; and the done
\* list, the active task and the backlog the command holds are those of the
\* file, nothing taken out by the filter.
C30_DisplayIsReadOnly ==
    Displayed =>
        /\ store = prev
        /\ BacklogOf(data) = BacklogOf(prev)
        /\ data[today_key] = BucketOf(prev, today_key)
        /\ OthersSame(data, prev, today_key)

C30_Witness ==
    /\ Displayed
    /\ run.cmd = "status"
    /\ run.filter = Str(<<"@", "W">>)
    /\ today_key \notin DOMAIN prev
    /\ Len(BacklogOf(prev)) >= 1
    /\ store = prev
    /\ data # store

====
